---- MODULE Spec2Model ----
(***************************************************************************)
(* A model of the English checkers engine: checkers/board.py (Board),      *)
(* checkers/move.py (Move) and checkers/game.py (Game).                    *)
(*                                                                         *)
(* The engine's fields are the variables; make_move, undo and              *)
(* get_all_moves are the actions of Spec, get_cell and set_cell those of   *)
(* BoardSpec, iter and next on a Move those of MoveSpec.                   *)
(* The pure parts of the engine (bounds-checked cell access,               *)
(* direction tables, the depth-first capture search, move enumeration,     *)
(* move application, undo) are operators over a record of the engine's     *)
(* fields, written statement by statement after the Python.                *)
(***************************************************************************)
EXTENDS Integers, Sequences, FiniteSets, TLC

(***************************************************************************)
(* Bounds of the exploration.                                              *)
(***************************************************************************)
\* most moves on the change-log stack of an unfinished game on a board
\* smaller than 8x8 (a make_move on a finished game may add one more)
MaxDepth == 4
\* the same for a game on an 8x8 board
MaxDepthLarge == 1
\* the largest size a Game is constructed with when its Board is exercised
MaxSize == 9
\* most get_cell and set_cell calls made on one Board
MaxCalls == 2
\* most steps of a Move that is traversed
MaxSteps == 3
MaxPlies == 7
\* most calls of undo() that cancel a move in a game played past its depth
MaxUndos == 2
\* most Move objects constructed
MaxMoves == 3
MaxMen == 3

(***************************************************************************)
(* board.py: Cell, Board                                                   *)
(***************************************************************************)
EMPTY == "EMPTY"
BLACK == "BLACK"
WHITE == "WHITE"
BLACK_QUEEN == "BLACK_QUEEN"
WHITE_QUEEN == "WHITE_QUEEN"
Cell == {EMPTY, BLACK, WHITE, BLACK_QUEEN, WHITE_QUEEN}

\* Board.SIZE, the class attribute: the default size, and the side of the
\* list of lists every Board allocates
SIZE == 8

\* game.py: GameState and Color
TIE == "TIE"
BLACK_WON == "BLACK_WON"
WHITE_WON == "WHITE_WON"
UNFINISHED == "UNFINISHED"
GameState == {TIE, BLACK_WON, WHITE_WON, UNFINISHED}

ColorBLACK == "Color.BLACK"
ColorWHITE == "Color.WHITE"
Color == {ColorBLACK, ColorWHITE}

\* the squares of the allocated list of lists
Squares == (0..(SIZE - 1)) \X (0..(SIZE - 1))

\* Board.__init__: self.size
BoardSize(size) == IF size # 0 THEN size ELSE SIZE

\* fill_initial whose first loop is over range(self.size // 2 - 1), without
\* the term self.size % 2
fill_initial_even(sz) ==
    [sq \in Squares |->
        LET row == sq[1]
            col == sq[2]
        IN  IF col < sz /\ row % 2 # col % 2 /\ row < (sz \div 2) - 1
            THEN BLACK
            ELSE IF col < sz /\ row % 2 # col % 2
                    /\ row >= (sz \div 2) + 1 /\ row < sz
            THEN WHITE
            ELSE EMPTY]

\* Board.fill_initial on the all-EMPTY SIZE x SIZE list of lists
fill_initial(sz) ==
    [sq \in Squares |->
        LET row == sq[1]
            col == sq[2]
        IN  IF col < sz /\ row % 2 # col % 2
                /\ row < (sz \div 2) - 1 + (sz % 2)
            THEN BLACK
            ELSE IF col < sz /\ row % 2 # col % 2
                    /\ row >= (sz \div 2) + 1 /\ row < sz
            THEN WHITE
            ELSE EMPTY]

\* the assignments self._board[row][col] = ... of Board.fill_initial for
\* self.size = sz, each with its place k in the order the two pairs of loops
\* make them
FillWrites(sz) ==
    {[k |-> row * sz + col, sq |-> <<row, col>>, cell |-> BLACK] :
        row \in {r \in 0..(sz - 1) : r < (sz \div 2) - 1 + (sz % 2)},
        col \in 0..(sz - 1)}
    \cup
    {[k |-> sz * sz + row * sz + col, sq |-> <<row, col>>, cell |-> WHITE] :
        row \in {r \in 0..(sz - 1) : r >= (sz \div 2) + 1},
        col \in 0..(sz - 1)}

\* those of them the condition row % 2 != col % 2 lets through
FillDarkWrites(sz) == {w \in FillWrites(sz) : w.sq[1] % 2 # w.sq[2] % 2}

\* those that index the SIZE x SIZE list of lists out of its range: the list
\* raises IndexError
FillBadWrites(sz) == {w \in FillDarkWrites(sz) : w.sq \notin Squares}

\* Board.fill_initial raises IndexError
fill_initial_raises(sz) == FillBadWrites(sz) # {}

\* the list of lists when Board.fill_initial raises: the assignments made
\* before the first one out of range
fill_initial_partial(sz) ==
    LET bad == FillBadWrites(sz)
        first == CHOOSE w \in bad : \A v \in bad : w.k <= v.k
    IN  [sq \in Squares |->
            IF \E w \in FillDarkWrites(sz) : w.sq = sq /\ w.k < first.k
            THEN (CHOOSE w \in FillDarkWrites(sz) : w.sq = sq).cell
            ELSE EMPTY]

\* Board.__init__(size): whether it raises, and the Board's attributes when
\* it returns or raises
Board__init__(size) ==
    IF fill_initial_raises(BoardSize(size))
    THEN [raised |-> TRUE, size |-> BoardSize(size),
          board |-> fill_initial_partial(BoardSize(size))]
    ELSE [raised |-> FALSE, size |-> BoardSize(size),
          board |-> fill_initial(BoardSize(size))]

\* the condition under which Board.get_cell and Board.set_cell do not raise
\* IndexError
InRange(sz, row, col) == 0 <= row /\ row < sz /\ 0 <= col /\ col < sz

\* Board.get_cell, for coordinates that do not raise
get_cell(b, row, col) == b[<<row, col>>]

\* set_cell assigning self._board[col][row]
set_cell_transposed(b, row, col, cell) == [b EXCEPT ![<<col, row>>] = cell]

\* Board.set_cell, for coordinates that do not raise
set_cell(b, row, col, cell) == [b EXCEPT ![<<row, col>>] = cell]

(***************************************************************************)
(* move.py: Move.  A move is its start square and its list of steps.       *)
(***************************************************************************)
Move(start, steps) == [start |-> start, steps |-> steps]

(***************************************************************************)
(* game.py: Game.  An engine g is the record of its fields:                *)
(*   board, size (board.size), state, turn, last_changes, black_count,     *)
(*   white_count, tie_counter, tie_max.                                    *)
(***************************************************************************)

\* Game._initial_black_count
_initial_black_count(sz) ==
    ((sz \div 2) - 1 + (sz % 2)) * (sz \div 2)
        + ((((sz \div 2) - 1 + (sz % 2)) \div 2) * (sz % 2))

\* Game.__init__(size): size = 0 is the default argument
NewGame(size) ==
    [board |-> fill_initial(BoardSize(size)),
     size |-> BoardSize(size),
     state |-> UNFINISHED,
     turn |-> ColorBLACK,
     last_changes |-> <<>>,
     black_count |-> _initial_black_count(BoardSize(size)),
     white_count |-> _initial_black_count(BoardSize(size)),
     tie_counter |-> 0,
     tie_max |-> (size * size) \div 2]

\* the value of an attribute that has not been assigned
Unset == "unset"

\* Game.__init__(size), whose first statement is self.board = Board(size):
\* when Board.__init__ raises, the Game has no other attribute
Game__init__(size) ==
    LET b == Board__init__(size)
    IN  IF b.raised
        THEN [raised |-> TRUE,
              game |-> [board |-> b.board, size |-> b.size,
                        state |-> Unset, turn |-> Unset,
                        last_changes |-> Unset, black_count |-> Unset,
                        white_count |-> Unset, tie_counter |-> Unset,
                        tie_max |-> Unset]]
        ELSE [raised |-> FALSE, game |-> NewGame(size)]

\* Game.opponent
opponent(g) == IF g.turn = ColorBLACK THEN ColorWHITE ELSE ColorBLACK

\* _is_turns_checker accepting the pieces of both colours
_is_turns_checker_any(g, cell) == cell # EMPTY

\* Game._is_turns_checker
_is_turns_checker(g, cell) ==
    \/ cell \in {BLACK, BLACK_QUEEN} /\ g.turn = ColorBLACK
    \/ cell \in {WHITE, WHITE_QUEEN} /\ g.turn = ColorWHITE

\* _is_correct_cell_for_move without the test of _is_turns_checker
_is_correct_cell_for_move_any(g, row, col) == InRange(g.size, row, col)

\* Game._is_correct_cell_for_move: TRUE when it returns, FALSE when it raises
\* WrongMoveError
_is_correct_cell_for_move(g, row, col) ==
    /\ InRange(g.size, row, col)
    /\ _is_turns_checker(g, get_cell(g.board, row, col))

\* Game._cell_with_opponent: the IndexError of get_cell is caught, giving False
_cell_with_opponent(g, row, col) ==
    IF ~InRange(g.size, row, col) THEN FALSE
    ELSE LET cell == get_cell(g.board, row, col)
         IN  \/ g.turn = ColorBLACK /\ cell \in {WHITE, WHITE_QUEEN}
             \/ g.turn = ColorWHITE /\ cell \in {BLACK, BLACK_QUEEN}

\* _empty_cell accepting every square of the board, occupied or not
_empty_cell_in_range(g, row, col) == InRange(g.size, row, col)

\* Game._empty_cell: the IndexError of get_cell is caught, giving False
_empty_cell(g, row, col) ==
    IF ~InRange(g.size, row, col) THEN FALSE
    ELSE get_cell(g.board, row, col) = EMPTY

\* _get_dirs listing, for every row direction, the right-hand diagonal first
_get_dirs_mirrored(g, row, col) ==
    LET cell == get_cell(g.board, row, col)
    IN  IF cell = BLACK THEN << <<1, 1>>, <<1, -1>> >>
        ELSE IF cell = WHITE THEN << <<-1, 1>>, <<-1, -1>> >>
        ELSE IF cell \in {BLACK_QUEEN, WHITE_QUEEN}
        THEN << <<-1, 1>>, <<-1, -1>>, <<1, 1>>, <<1, -1>> >>
        ELSE <<>>

\* _get_dirs giving the four diagonals to men as well as to kings
_get_dirs_any(g, row, col) ==
    IF get_cell(g.board, row, col) = EMPTY THEN <<>>
    ELSE << <<-1, -1>>, <<-1, 1>>, <<1, -1>>, <<1, 1>> >>

\* _get_dirs giving a man the square straight ahead as well
_get_dirs_straight(g, row, col) ==
    LET cell == get_cell(g.board, row, col)
    IN  IF cell = BLACK THEN << <<1, -1>>, <<1, 0>>, <<1, 1>> >>
        ELSE IF cell = WHITE THEN << <<-1, -1>>, <<-1, 0>>, <<-1, 1>> >>
        ELSE IF cell \in {BLACK_QUEEN, WHITE_QUEEN}
        THEN << <<-1, -1>>, <<-1, 1>>, <<1, -1>>, <<1, 1>> >>
        ELSE <<>>

\* Game._get_dirs
_get_dirs(g, row, col) ==
    LET cell == get_cell(g.board, row, col)
    IN  IF cell = BLACK THEN << <<1, -1>>, <<1, 1>> >>
        ELSE IF cell = WHITE THEN << <<-1, -1>>, <<-1, 1>> >>
        ELSE IF cell \in {BLACK_QUEEN, WHITE_QUEEN}
        THEN << <<-1, -1>>, <<-1, 1>>, <<1, -1>>, <<1, 1>> >>
        ELSE <<>>

\* the new_dirs loop of Game._dfs_find_beat_steps: the directions of dirs
\* other than the reverse of the jump just taken
new_dirs(dirs, rdir, cdir) ==
    SelectSeq(dirs, LAMBDA d : ~(d[1] = -rdir /\ d[2] = -cdir))

\* tmp + step for every step of next_steps, and [tmp] as well in every case
ExtendSteps_prefixes(tmp, next_steps) ==
    << tmp >> \o [k \in 1..Len(next_steps) |-> tmp \o next_steps[k]]

\* tmp + step for every step of next_steps, or [tmp] when there is none
ExtendSteps(tmp, next_steps) ==
    IF next_steps = <<>> THEN << tmp >>
    ELSE [k \in 1..Len(next_steps) |-> tmp \o next_steps[k]]

RECURSIVE NaiveJumps(_, _, _, _, _)
\* a capture search that keeps no bet set and prunes no direction: every
\* direction of dirs is tried at every node (chains are cut after fuel jumps)
NaiveJumps(g, row, col, dirs, fuel) ==
    LET from(i) ==
            LET r == row + dirs[i][1]
                c == col + dirs[i][2]
                r2 == r + dirs[i][1]
                c2 == c + dirs[i][2]
            IN  IF _cell_with_opponent(g, r, c) /\ _empty_cell(g, r2, c2)
                THEN ExtendSteps(<< <<r2, c2>> >>,
                         IF fuel = 0 THEN <<>>
                         ELSE NaiveJumps(g, r2, c2, dirs, fuel - 1))
                ELSE <<>>
    IN  IF Len(dirs) = 0 THEN <<>>
        ELSE IF Len(dirs) = 2 THEN from(1) \o from(2)
        ELSE from(1) \o from(2) \o from(3) \o from(4)

\* _dfs_find_beat_steps without the bet check and without direction pruning
_dfs_find_beat_steps_naive(g, row, col, dirs, bet) ==
    [steps |-> NaiveJumps(g, row, col, dirs, 3), bet |-> bet]

RECURSIVE _dfs_find_beat_steps(_, _, _, _, _)
RECURSIVE DfsDirs(_, _, _, _, _, _, _)

RECURSIVE DfsDirs_keep(_, _, _, _, _, _, _)
\* the loop of _dfs_find_beat_steps without its statement bet.remove((r, c)):
\* a square added to the bet set stays in it
DfsDirs_keep(g, row, col, dirs, bet, i, steps) ==
    IF i > Len(dirs) THEN [steps |-> steps, bet |-> bet]
    ELSE
      LET rdir == dirs[i][1]
          cdir == dirs[i][2]
          r == row + rdir
          c == col + cdir
          r2 == r + rdir
          c2 == c + cdir
      IN  IF ~_cell_with_opponent(g, r, c)
          THEN DfsDirs_keep(g, row, col, dirs, bet, i + 1, steps)
          ELSE IF <<r, c>> \in bet
          THEN [steps |-> steps, bet |-> bet]
          ELSE IF ~_empty_cell(g, r2, c2)
          THEN DfsDirs_keep(g, row, col, dirs, bet \cup {<<r, c>>}, i + 1,
                            steps)
          ELSE
            LET sub == _dfs_find_beat_steps(g, r2, c2,
                           new_dirs(dirs, rdir, cdir), bet \cup {<<r, c>>})
            IN  DfsDirs_keep(g, row, col, dirs, sub.bet, i + 1,
                             steps \o ExtendSteps(<< <<r2, c2>> >>, sub.steps))

\* the loop "for rdir, cdir in dirs" of Game._dfs_find_beat_steps from its
\* i-th direction on, with the steps gathered so far and the bet set as it
\* is; the result is the returned list and the bet set the call leaves behind
DfsDirs(g, row, col, dirs, bet, i, steps) ==
    IF i > Len(dirs) THEN [steps |-> steps, bet |-> bet]
    ELSE
      LET rdir == dirs[i][1]
          cdir == dirs[i][2]
          r == row + rdir
          c == col + cdir
          r2 == r + rdir
          c2 == c + cdir
      IN  IF ~_cell_with_opponent(g, r, c)
          THEN DfsDirs(g, row, col, dirs, bet, i + 1, steps)
          ELSE IF <<r, c>> \in bet
          THEN [steps |-> steps, bet |-> bet]             \* break
          ELSE IF ~_empty_cell(g, r2, c2)
          THEN DfsDirs(g, row, col, dirs,
                       (bet \cup {<<r, c>>}) \ {<<r, c>>}, i + 1, steps)
          ELSE
            LET sub == _dfs_find_beat_steps(g, r2, c2,
                           new_dirs(dirs, rdir, cdir), bet \cup {<<r, c>>})
            IN  DfsDirs(g, row, col, dirs, sub.bet \ {<<r, c>>}, i + 1,
                        steps \o ExtendSteps(<< <<r2, c2>> >>, sub.steps))

\* Game._dfs_find_beat_steps(row, col, dirs, bet)
_dfs_find_beat_steps(g, row, col, dirs, bet) ==
    DfsDirs(g, row, col, dirs, bet, 1, <<>>)

\* Game._find_not_beat_steps
_find_not_beat_steps(g, row, col, dirs) ==
    LET ok(d) == /\ InRange(g.size, row + d[1], col + d[2])
                 /\ get_cell(g.board, row + d[1], col + d[2]) = EMPTY
        kept == SelectSeq(dirs, ok)
    IN  [k \in 1..Len(kept) |-> << <<row + kept[k][1], col + kept[k][2]>> >>]

\* Game._get_beat_steps: the search is called without a bet argument, so it
\* works on the set object that is the parameter's default value (bet0)
_get_beat_steps(g, row, col, bet0) ==
    _dfs_find_beat_steps(g, row, col, _get_dirs(g, row, col), bet0)

\* Game._get_not_beat_steps
_get_not_beat_steps(g, row, col) ==
    _find_not_beat_steps(g, row, col, _get_dirs(g, row, col))

\* the moves built from a list of step sequences
MovesFrom(row, col, stepss) ==
    [k \in 1..Len(stepss) |-> Move(<<row, col>>, stepss[k])]

\* Game._get_beat_moves: moves is the returned list when it does not raise
\* WrongMoveError (raised is TRUE when it does)
_get_beat_moves(g, row, col, bet0) ==
    IF ~_is_correct_cell_for_move(g, row, col)
    THEN [raised |-> TRUE, moves |-> <<>>, bet |-> bet0]
    ELSE LET res == _get_beat_steps(g, row, col, bet0)
         IN  [raised |-> FALSE,
              moves |-> MovesFrom(row, col, res.steps),
              bet |-> res.bet]

\* Game._get_not_beat_moves
_get_not_beat_moves(g, row, col) ==
    IF ~_is_correct_cell_for_move(g, row, col)
    THEN [raised |-> TRUE, moves |-> <<>>]
    ELSE [raised |-> FALSE,
          moves |-> MovesFrom(row, col, _get_not_beat_steps(g, row, col))]

RECURSIVE BeatLoops(_, _, _, _)
\* the first pair of loops of Game.get_all_moves,
\*     for row in range(size): for col in range(size): moves += ...
\* over the squares numbered lo..hi in the loops' order (square k is row
\* k div size, column k mod size), started with the bet set bet0.  The run
\* over lo..hi is the run over its first half followed by the run over its
\* second half, which starts from the bet set the first half leaves behind.
BeatLoops(g, lo, hi, bet0) ==
    IF lo > hi THEN [moves |-> <<>>, bet |-> bet0]
    ELSE IF lo = hi
    THEN LET res == _get_beat_moves(g, lo \div g.size, lo % g.size, bet0)
         IN  [moves |-> res.moves, bet |-> res.bet]
    ELSE LET mid == (lo + hi) \div 2
             first == BeatLoops(g, lo, mid, bet0)
             second == BeatLoops(g, mid + 1, hi, first.bet)
         IN  [moves |-> first.moves \o second.moves, bet |-> second.bet]

RECURSIVE NotBeatLoops(_, _, _)
\* the second pair of loops of Game.get_all_moves over the squares lo..hi
NotBeatLoops(g, lo, hi) ==
    IF lo > hi THEN <<>>
    ELSE IF lo = hi
    THEN _get_not_beat_moves(g, lo \div g.size, lo % g.size).moves
    ELSE LET mid == (lo + hi) \div 2
         IN  NotBeatLoops(g, lo, mid) \o NotBeatLoops(g, mid + 1, hi)

\* get_all_moves without the early return "if moves: return moves": the
\* simple steps are added to the capture moves
get_all_moves_bet_no_return(g, bet0) ==
    LET beat == BeatLoops(g, 0, g.size * g.size - 1, bet0)
    IN  [moves |-> beat.moves \o NotBeatLoops(g, 0, g.size * g.size - 1),
         bet |-> beat.bet]

\* Game.get_all_moves, with the bet set the capture search starts from: the
\* returned list, and the bet set the call leaves behind
get_all_moves_bet(g, bet0) ==
    LET beat == BeatLoops(g, 0, g.size * g.size - 1, bet0)
    IN  IF beat.moves # <<>> THEN beat
        ELSE [moves |-> NotBeatLoops(g, 0, g.size * g.size - 1),
              bet |-> beat.bet]

\* _update_checkers_counters without the decrements for the previous value
_update_checkers_counters_up(g, prev_cell, cell) ==
    [g EXCEPT
       !.black_count = IF cell \in {BLACK, BLACK_QUEEN} THEN @ + 1 ELSE @,
       !.white_count = IF cell \in {WHITE, WHITE_QUEEN} THEN @ + 1 ELSE @]

\* Game._update_checkers_counters
_update_checkers_counters(g, prev_cell, cell) ==
    LET bc1 == IF prev_cell \in {BLACK, BLACK_QUEEN}
               THEN g.black_count - 1 ELSE g.black_count
        wc1 == IF prev_cell \in {WHITE, WHITE_QUEEN}
               THEN g.white_count - 1 ELSE g.white_count
    IN  [g EXCEPT
           !.black_count = IF cell \in {BLACK, BLACK_QUEEN} THEN bc1 + 1 ELSE bc1,
           !.white_count = IF cell \in {WHITE, WHITE_QUEEN} THEN wc1 + 1 ELSE wc1]

\* _set_cell logging the value it writes in place of the previous one
_set_cell_logs_new(g, row, col, cell) ==
    LET prev_cell == get_cell(g.board, row, col)
        top == Len(g.last_changes)
        g1 == [g EXCEPT
                 !.last_changes[top] = Append(@, <<row, col, cell>>),
                 !.board = set_cell(g.board, row, col, cell)]
    IN  _update_checkers_counters(g1, prev_cell, cell)

\* Game._set_cell: the previous value goes to the last frame of last_changes
_set_cell(g, row, col, cell) ==
    LET prev_cell == get_cell(g.board, row, col)
        top == Len(g.last_changes)
        g1 == [g EXCEPT
                 !.last_changes[top] = Append(@, <<row, col, prev_cell>>),
                 !.board = set_cell(g.board, row, col, cell)]
    IN  _update_checkers_counters(g1, prev_cell, cell)

\* _set_cell_undo leaving tie_counter alone
_set_cell_undo_keep(g, row, col, cell) ==
    _update_checkers_counters(
        [g EXCEPT !.board = set_cell(g.board, row, col, cell)],
        get_cell(g.board, row, col), cell)

\* _set_cell_undo without the test "if self.tie_counter > 0"
_set_cell_undo_unguarded(g, row, col, cell) ==
    LET prev_cell == get_cell(g.board, row, col)
        g1 == [g EXCEPT
                 !.tie_counter = @ - 1,
                 !.board = set_cell(g.board, row, col, cell)]
    IN  _update_checkers_counters(g1, prev_cell, cell)

\* Game._set_cell_undo
_set_cell_undo(g, row, col, cell) ==
    LET prev_cell == get_cell(g.board, row, col)
        g1 == [g EXCEPT
                 !.tie_counter = IF @ > 0 THEN @ - 1 ELSE @,
                 !.board = set_cell(g.board, row, col, cell)]
    IN  _update_checkers_counters(g1, prev_cell, cell)

RECURSIVE UndoChangesForward(_, _)
\* the loop of undo taking the entries of the frame first to last
\* (changes.pop(0) for changes.pop())
UndoChangesForward(g, changes) ==
    IF changes = <<>> THEN g
    ELSE LET e == changes[1]
         IN  UndoChangesForward(_set_cell_undo(g, e[1], e[2], e[3]),
                                SubSeq(changes, 2, Len(changes)))

RECURSIVE UndoChanges(_, _)
\* the loop "while changes" of Game.undo: the entries of the popped frame,
\* last first
UndoChanges(g, changes) ==
    IF changes = <<>> THEN g
    ELSE LET e == changes[Len(changes)]
         IN  UndoChanges(_set_cell_undo(g, e[1], e[2], e[3]),
                         SubSeq(changes, 1, Len(changes) - 1))

\* undo that changes the side to move on every call, outside the test of
\* last_changes
undo_turn(g) ==
    IF g.last_changes = <<>> THEN [g EXCEPT !.turn = opponent(g)]
    ELSE LET top == Len(g.last_changes)
             g1 == [g EXCEPT !.state = UNFINISHED,
                             !.turn = opponent(g),
                             !.last_changes = SubSeq(@, 1, top - 1)]
         IN  UndoChanges(g1, g.last_changes[top])

\* undo without "self.state = GameState.UNFINISHED"
undo_keep_state(g) ==
    IF g.last_changes = <<>> THEN g
    ELSE LET top == Len(g.last_changes)
             g1 == [g EXCEPT !.last_changes = SubSeq(@, 1, top - 1)]
         IN  UndoChanges(g1, g.last_changes[top])

\* Game.undo
undo(g) ==
    IF g.last_changes = <<>> THEN g
    ELSE LET top == Len(g.last_changes)
             g1 == [g EXCEPT !.state = UNFINISHED,
                             !.last_changes = SubSeq(@, 1, top - 1)]
         IN  UndoChanges(g1, g.last_changes[top])

\* Game._make_one_step_move
_make_one_step_move(g, move) ==
    LET row == move.steps[1][1]
        col == move.steps[1][2]
        start_row == move.start[1]
        start_col == move.start[2]
        cell == get_cell(g.board, start_row, start_col)
    IN  _set_cell(_set_cell(g, row, col, cell), start_row, start_col, EMPTY)

\* floor division by two, as Python's // 2
FloorDiv2(n) == IF n >= 0 THEN n \div 2 ELSE -((1 - n) \div 2)

RECURSIVE BeatSteps_no_capture(_, _, _, _, _, _)
\* the loop of _make_beat_move without the _set_cell of the square jumped over
BeatSteps_no_capture(g, move, i, prev_row, prev_col, prev_cell) ==
    IF i > Len(move.steps) THEN g
    ELSE LET row == move.steps[i][1]
             col == move.steps[i][2]
             g2 == _set_cell(g, prev_row, prev_col, EMPTY)
             g3 == _set_cell(g2, row, col, prev_cell)
         IN  BeatSteps_no_capture(g3, move, i + 1, row, col, prev_cell)

RECURSIVE BeatSteps(_, _, _, _, _, _)
\* the loop "for step in move" of Game._make_beat_move from the i-th step on
BeatSteps(g, move, i, prev_row, prev_col, prev_cell) ==
    IF i > Len(move.steps) THEN g
    ELSE LET row == move.steps[i][1]
             col == move.steps[i][2]
             g1 == _set_cell(g, FloorDiv2(prev_row + row),
                             FloorDiv2(prev_col + col), EMPTY)
             g2 == _set_cell(g1, prev_row, prev_col, EMPTY)
             g3 == _set_cell(g2, row, col, prev_cell)
         IN  BeatSteps(g3, move, i + 1, row, col, prev_cell)

\* Game._make_beat_move
_make_beat_move(g, move) ==
    BeatSteps(g, move, 1, move.start[1], move.start[2],
              get_cell(g.board, move.start[1], move.start[2]))

\* _check_and_change_to_queen testing the last row of the default board
\* (Board.SIZE - 1 for self.board.size - 1)
_check_and_change_to_queen_SIZE(g, move) ==
    LET last_row == move.steps[Len(move.steps)][1]
        last_col == move.steps[Len(move.steps)][2]
    IN  IF g.turn = ColorBLACK /\ last_row = SIZE - 1
        THEN _set_cell(g, last_row, last_col, BLACK_QUEEN)
        ELSE IF g.turn = ColorWHITE /\ last_row = 0
        THEN _set_cell(g, last_row, last_col, WHITE_QUEEN)
        ELSE g

\* _check_and_change_to_queen without its elif branch: White is not crowned
_check_and_change_to_queen_black_only(g, move) ==
    LET last_row == move.steps[Len(move.steps)][1]
        last_col == move.steps[Len(move.steps)][2]
    IN  IF g.turn = ColorBLACK /\ last_row = g.size - 1
        THEN _set_cell(g, last_row, last_col, BLACK_QUEEN)
        ELSE g

\* Game._check_and_change_to_queen
_check_and_change_to_queen(g, move) ==
    LET last_row == move.steps[Len(move.steps)][1]
        last_col == move.steps[Len(move.steps)][2]
    IN  IF g.turn = ColorBLACK /\ last_row = g.size - 1
        THEN _set_cell(g, last_row, last_col, BLACK_QUEEN)
        ELSE IF g.turn = ColorWHITE /\ last_row = 0
        THEN _set_cell(g, last_row, last_col, WHITE_QUEEN)
        ELSE g

\* _update_state with the test of tie_counter only
_update_state_tie_only(g, moves) ==
    IF g.tie_counter >= g.tie_max THEN [g EXCEPT !.state = TIE] ELSE g

\* _update_state naming the side to move, which has no move, as the winner
_update_state_swapped(g, moves) ==
    IF g.tie_counter >= g.tie_max THEN [g EXCEPT !.state = TIE]
    ELSE IF moves = <<>>
    THEN [g EXCEPT !.state = IF g.turn = ColorBLACK
                              THEN BLACK_WON ELSE WHITE_WON]
    ELSE g

\* Game._update_state, given the list get_all_moves returns
_update_state(g, moves) ==
    IF g.tie_counter >= g.tie_max THEN [g EXCEPT !.state = TIE]
    ELSE IF moves = <<>>
    THEN [g EXCEPT !.state = IF g.turn = ColorBLACK
                              THEN WHITE_WON ELSE BLACK_WON]
    ELSE g

Abs(n) == IF n < 0 THEN -n ELSE n
Max(a, b) == IF a >= b THEN a ELSE b

\* first_step_len of Game.make_move
first_step_len(move) ==
    Abs(Max(move.steps[1][1] - move.start[1],
            move.steps[1][2] - move.start[2]))

\* the test of make_move without the condition on first_step_len
IsOneStep_single(move) == Len(move.steps) = 1

\* the test of Game.make_move that sends a move to _make_one_step_move
IsOneStep(move) == Len(move.steps) = 1 /\ first_step_len(move) = 1

\* make_move without "self.turn = self.opponent()"
MoveApplied_no_turn(g, move) ==
    LET g1 == [g EXCEPT !.tie_counter = @ + 1,
                        !.last_changes = Append(@, <<>>)]
        g2 == IF IsOneStep(move)
              THEN _make_one_step_move(g1, move)
              ELSE [_make_beat_move(g1, move) EXCEPT !.tie_counter = 0]
    IN  _check_and_change_to_queen(g2, move)

\* make_move without "self.tie_counter = 0" after a beating move
MoveApplied_no_reset(g, move) ==
    LET g1 == [g EXCEPT !.tie_counter = @ + 1,
                        !.last_changes = Append(@, <<>>)]
        g2 == IF IsOneStep(move)
              THEN _make_one_step_move(g1, move)
              ELSE _make_beat_move(g1, move)
        g3 == _check_and_change_to_queen(g2, move)
    IN  [g3 EXCEPT !.turn = opponent(g3)]

\* Game.make_move up to and including the change of turn
MoveApplied(g, move) ==
    LET g1 == [g EXCEPT !.tie_counter = @ + 1,
                        !.last_changes = Append(@, <<>>)]
        g2 == IF IsOneStep(move)
              THEN _make_one_step_move(g1, move)
              ELSE [_make_beat_move(g1, move) EXCEPT !.tie_counter = 0]
        g3 == _check_and_change_to_queen(g2, move)
    IN  [g3 EXCEPT !.turn = opponent(g3)]

\* Game.make_move, with the bet set of the capture search: the engine after
\* the call, and the bet set _update_state's get_all_moves leaves behind
make_move(g, move, bet0) ==
    LET g4 == MoveApplied(g, move)
        res == IF g4.tie_counter >= g4.tie_max
               THEN [moves |-> <<>>, bet |-> bet0]    \* get_all_moves not called
               ELSE get_all_moves_bet(g4, bet0)
    IN  [game |-> _update_state(g4, res.moves), bet |-> res.bet]

(***************************************************************************)
(* The state: the fields of one Game, the set object that is the default   *)
(* value of _dfs_find_beat_steps' bet parameter, a record of the calls     *)
(* made on the engine and on its Board, and one Move with the traversals   *)
(* made of it.                                                             *)
(***************************************************************************)
VARIABLES
    board,          \* Game.board._board
    size,           \* Game.board.size
    state,          \* Game.state
    turn,           \* Game.turn
    last_changes,   \* Game.last_changes
    black_count,    \* Game.black_count
    white_count,    \* Game.white_count
    tie_counter,    \* Game.tie_counter
    tie_max,        \* Game.tie_max
    bet,            \* the default value of the bet parameter
    last_op,        \* the last call: "new", "make_move" or "undo"
    round_trip,     \* TRUE when the last call is an undo and the call
                    \* before it is the make_move that it cancelled
    last_move,      \* the argument of the last call, when it is a make_move
    before,         \* the engine's fields when the last make_move was
                    \* called, as long as that make_move is the last call
                    \* or round_trip holds; the engine's fields otherwise
    call,           \* the constructor call, or the last call of get_cell or
                    \* set_cell made on Game.board: its arguments and outcome
    calls,          \* how many get_cell and set_cell calls have been made
    mv,             \* a Move: its start, steps and index attributes
    trav,           \* the two traversals of mv: for each, whether iter(mv)
                    \* has been called, the steps it has been given, and
                    \* whether StopIteration has ended it
    shadow,         \* RandomAI._game: the fields of the AI player's Game
    ai_color,       \* RandomAI.color
    pending,        \* the driver's variable move when it holds a move made
                    \* on the engine that the AI player has not been given
                    \* yet: << >> or that one move
    search,         \* a call of _get_beat_steps in progress: the stack of
                    \* the activations of _dfs_find_beat_steps (row, col,
                    \* dirs, the position i of the for loop in dirs, steps),
                    \* the number of activations so far, and the returned
                    \* list once the outermost activation has returned
    made            \* the Move objects constructed so far (start, and steps:
                    \* the list object it refers to) and the contents of the
                    \* list object that is the default value of steps

vars == <<board, size, state, turn, last_changes, black_count, white_count,
          tie_counter, tie_max, bet, last_op, round_trip, last_move, before,
          call, calls, mv, trav, shadow, ai_color, pending, search, made>>

\* the part of the state the calls on the engine leave alone
aside == <<call, calls, mv, trav, search, made>>

\* the AI player and what the driver holds for it
twin == <<shadow, ai_color, pending>>

\* the engine as a record of its fields
Self ==
    [board |-> board, size |-> size, state |-> state, turn |-> turn,
     last_changes |-> last_changes, black_count |-> black_count,
     white_count |-> white_count, tie_counter |-> tie_counter,
     tie_max |-> tie_max]

\* the engine's fields become those of the record g
Becomes(g) ==
    /\ board' = g.board
    /\ size' = g.size
    /\ state' = g.state
    /\ turn' = g.turn
    /\ last_changes' = g.last_changes
    /\ black_count' = g.black_count
    /\ white_count' = g.white_count
    /\ tie_counter' = g.tie_counter
    /\ tie_max' = g.tie_max

\* Game.get_all_moves() on the engine as it is
get_all_moves == get_all_moves_bet(Self, bet).moves

\* the sizes games are constructed with; 0 is Game() with no argument
Sizes == {0, 3, 4, 5}

\* tests/test_game_extra.py, fixture B_can_bet_5: the squares holding WHITE
\* and the square holding BLACK_QUEEN
Bet5White == {1, 3} \X {2, 4, 6}
\* tests/test_game_extra.py, fixture B_can_bet_4
Bet4White == {<<1, 4>>, <<3, 2>>, <<3, 4>>, <<5, 2>>, <<5, 4>>}
FixtureQueen == <<4, 1>>

\* a fixture's engine: Game(8) whose board, black_count and white_count are
\* then assigned
Fixture(white) ==
    [NewGame(SIZE) EXCEPT
       !.board = [sq \in Squares |->
                     IF sq \in white THEN WHITE
                     ELSE IF sq = FixtureQueen THEN BLACK_QUEEN ELSE EMPTY],
       !.black_count = 1,
       !.white_count = Cardinality(white)]

B_can_bet_5 == Fixture(Bet5White)
B_can_bet_4 == Fixture(Bet4White)

\* the engines the exploration starts from
Starts == {NewGame(n) : n \in Sizes} \cup {B_can_bet_5, B_can_bet_4}

NoMove == Move(<<0, 0>>, <<>>)

\* the fields of an engine that a call is compared on
Snapshot(g) ==
    [board |-> g.board, state |-> g.state, turn |-> g.turn,
     black_count |-> g.black_count, white_count |-> g.white_count,
     tie_counter |-> g.tie_counter]

\* the Move of tests/test_move.py, before any iter(): index is assigned by
\* Move.__iter__
TestMove == [start |-> <<3, 4>>, steps |-> << <<5, 6>>, <<7, 4>> >>,
             index |-> Unset]

\* a traversal that has not begun
NoTraversal == [started |-> FALSE, out |-> <<>>, stopped |-> FALSE]

\* the state in which the engine is g, constructed by a call that raised or
\* not, and m is the Move
Begin(g, raised, m) ==
    /\ board = g.board
    /\ size = g.size
    /\ state = g.state
    /\ turn = g.turn
    /\ last_changes = g.last_changes
    /\ black_count = g.black_count
    /\ white_count = g.white_count
    /\ tie_counter = g.tie_counter
    /\ tie_max = g.tie_max
    /\ bet = {}
    /\ last_op = "new"
    /\ round_trip = FALSE
    /\ last_move = NoMove
    /\ before = Snapshot(g)
    /\ call = [op |-> "Game", raised |-> raised]
    /\ calls = 0
    /\ mv = m
    /\ trav = <<NoTraversal, NoTraversal>>

\* no search in progress
NoSearch == [stack |-> <<>>, calls |-> 0, result |-> Unset]

\* no Move constructed; the default value of steps is the empty list of the
\* def statement
NoMoves == [default |-> <<>>, objs |-> <<>>]

Idle == search = NoSearch /\ made = NoMoves

\* RandomAI(size, color), whose Game is constructed as g was
Twin(g, color) ==
    /\ shadow = g
    /\ ai_color = color
    /\ pending = <<>>

Init ==
    \E g \in Starts : Begin(g, FALSE, TestMove) /\ Twin(g, ColorWHITE) /\ Idle

\* how many moves may be on the change-log stack of a game that has not
\* ended
DepthLimit == IF size < SIZE THEN MaxDepth ELSE MaxDepthLarge

\* the driver calls make_move with a move that get_all_moves() returned
CallMakeMove(move) ==
    LET res == make_move(Self, move, bet)
    IN  /\ Becomes(res.game)
        /\ bet' = res.bet
        /\ last_op' = "make_move"
        /\ round_trip' = FALSE
        /\ last_move' = move
        /\ before' = Snapshot(Self)
        /\ UNCHANGED aside

\* make_move while the game is Unfinished
MakeMove ==
    /\ state = UNFINISHED
    /\ Len(last_changes) < DepthLimit
    /\ LET moves == get_all_moves
       IN  \E k \in 1..Len(moves) : CallMakeMove(moves[k])
    /\ UNCHANGED twin

\* make_move after the game has ended: the code has no check of state.
\* Such a call may also be the one after the DepthLimit-th move.
MakeMoveFinished ==
    /\ state # UNFINISHED
    /\ Len(last_changes) <= DepthLimit
    /\ LET moves == get_all_moves
       IN  \E k \in 1..Len(moves) : CallMakeMove(moves[k])
    /\ UNCHANGED twin

\* undo
Undo ==
    /\ Becomes(undo(Self))
    /\ bet' = bet
    /\ last_op' = "undo"
    /\ round_trip' = (last_op = "make_move")
    /\ last_move' = NoMove
    /\ before' = IF last_op = "make_move" THEN before
                 ELSE Snapshot(undo(Self))
    /\ UNCHANGED <<aside, twin>>

\* get_all_moves: it assigns no field of the engine; the capture search
\* works on the bet set and leaves it as the search leaves it
GetAllMoves ==
    /\ bet' = get_all_moves_bet(Self, bet).bet
    /\ UNCHANGED <<board, size, state, turn, last_changes, black_count,
                   white_count, tie_counter, tie_max, last_op, round_trip,
                   last_move, before, aside, twin>>

Next == MakeMove \/ MakeMoveFinished \/ Undo \/ GetAllMoves

Spec == Init /\ [][Next]_vars

(***************************************************************************)
(* Games played without undo.                                              *)
(***************************************************************************)
PlayNext == MakeMove \/ MakeMoveFinished \/ GetAllMoves

PlaySpec == Init /\ [][PlayNext]_vars

(***************************************************************************)
(* The Board of a Game of every size, read and written through get_cell    *)
(* and set_cell as tests/test_board.py does.                               *)
(***************************************************************************)
BoardInit ==
    \E n \in 0..MaxSize :
        /\ Begin(Game__init__(n).game, Game__init__(n).raised, TestMove)
        /\ Twin(Game__init__(n).game, ColorWHITE)
        /\ Idle

\* the constructor has returned a Game
Constructed == call.op # "Game" \/ ~call.raised

\* the coordinates the calls are made with: the first and the last of the
\* board, and the ones next to them outside it
Coords == {-1, 0, size - 1, size}

\* board.get_cell(row, col)
CallGetCell(row, col) ==
    /\ call' = [op |-> "get_cell", row |-> row, col |-> col,
                raised |-> ~InRange(size, row, col),
                result |-> IF InRange(size, row, col)
                           THEN get_cell(board, row, col) ELSE Unset]
    /\ calls' = calls + 1
    /\ UNCHANGED <<board, size, state, turn, last_changes, black_count,
                   white_count, tie_counter, tie_max, bet, last_op,
                   round_trip, last_move, before, mv, trav, twin, search, made>>

\* board.set_cell(row, col, cell); prev is the list of lists before the call
CallSetCell(row, col, cell) ==
    /\ board' = IF InRange(size, row, col)
                THEN set_cell(board, row, col, cell) ELSE board
    /\ call' = [op |-> "set_cell", row |-> row, col |-> col, cell |-> cell,
                raised |-> ~InRange(size, row, col), prev |-> board]
    /\ calls' = calls + 1
    /\ UNCHANGED <<size, state, turn, last_changes, black_count,
                   white_count, tie_counter, tie_max, bet, last_op,
                   round_trip, last_move, before, mv, trav, twin, search, made>>

GetCell ==
    /\ Constructed
    /\ calls < MaxCalls
    /\ \E row \in Coords, col \in Coords : CallGetCell(row, col)

SetCell ==
    /\ Constructed
    /\ calls < MaxCalls
    /\ \E row \in Coords, col \in Coords, cell \in Cell :
          CallSetCell(row, col, cell)

BoardNext == GetCell \/ SetCell

BoardSpec == BoardInit /\ [][BoardNext]_vars

(***************************************************************************)
(* A Move and two traversals of it, each begun by iter(mv) (as a for loop  *)
(* does) and advanced by next().  Move.__iter__ returns the Move itself,   *)
(* so both traversals work on the one attribute mv.index.                  *)
(***************************************************************************)

\* the k-th step of the traversed Moves: (5, 6), (7, 4) as in
\* tests/test_move.py, then (5, 2) as test_add adds, then (7, 0)
PathStep(k) == <<IF k % 2 = 1 THEN 5 ELSE 7, 8 - 2 * k>>

\* the Moves that are traversed: Move((3, 4), steps) with 0 to MaxSteps steps
TraversedMoves ==
    {[start |-> <<3, 4>>, steps |-> [k \in 1..n |-> PathStep(k)],
      index |-> Unset] : n \in 0..MaxSteps}

MoveInit ==
    \E m \in TraversedMoves :
        Begin(NewGame(0), FALSE, m) /\ Twin(NewGame(0), ColorWHITE) /\ Idle

\* Move.__iter__, called by traversal t
Iter(t) ==
    /\ ~trav[t].started
    /\ mv' = [mv EXCEPT !.index = 0]
    /\ trav' = [trav EXCEPT ![t].started = TRUE]
    /\ UNCHANGED <<board, size, state, turn, last_changes, black_count,
                   white_count, tie_counter, tie_max, bet, last_op,
                   round_trip, last_move, before, call, calls, twin, search, made>>

\* Move.__next__, called by traversal t: a step, or StopIteration
NextStep(t) ==
    /\ trav[t].started
    /\ ~trav[t].stopped
    /\ IF mv.index < Len(mv.steps)
       THEN /\ trav' = [trav EXCEPT ![t].out = Append(@, mv.steps[mv.index + 1])]
            /\ mv' = [mv EXCEPT !.index = @ + 1]
       ELSE /\ trav' = [trav EXCEPT ![t].stopped = TRUE]
            /\ mv' = mv
    /\ UNCHANGED <<board, size, state, turn, last_changes, black_count,
                   white_count, tie_counter, tie_max, bet, last_op,
                   round_trip, last_move, before, call, calls, twin, search, made>>

MoveNext == \E t \in {1, 2} : Iter(t) \/ NextStep(t)

MoveSpec == MoveInit /\ [][MoveNext]_vars

(***************************************************************************)
(* A long game on the 4x4 board: from Game(4), the moves of a fixed        *)
(* opening (the index of each in get_all_moves()), after which a Black     *)
(* king stands next to the row it was crowned on, then any moves up to     *)
(* MaxPlies deep; undo() may be called at any point.  The fixtures are     *)
(* played as in Spec.                                                      *)
(***************************************************************************)
Opening == <<2, 1, 1, 2, 2, 1>>

\* the engines a long game starts from: Game(4) and the two fixtures, whose
\* chains of several jumps are made and undone
LongStarts == {NewGame(4), B_can_bet_5, B_can_bet_4}

\* the number of moves a long game goes deep
LongLimit == IF size = 4 THEN MaxPlies ELSE DepthLimit

LongInit ==
    \E g \in LongStarts :
        Begin(g, FALSE, TestMove) /\ Twin(g, ColorWHITE) /\ Idle

\* make_move with a move of get_all_moves(), while the game is not over
LongMove ==
    /\ state = UNFINISHED
    /\ Len(last_changes) < LongLimit
    /\ LET moves == get_all_moves
           ply == Len(last_changes) + 1
       IN  \E k \in 1..Len(moves) :
              /\ (size = 4 /\ ply <= Len(Opening)) => k = Opening[ply]
              /\ CallMakeMove(moves[k])
    /\ UNCHANGED twin

LongNext == LongMove \/ Undo

LongSpec == LongInit /\ [][LongNext]_vars

(***************************************************************************)
(* The per-square queries Game._get_beat_moves(row, col) and               *)
(* Game._get_not_beat_moves(row, col), called directly at any point of a   *)
(* game with any coordinates from one square outside the board on each     *)
(* side.  call records the last call and how it ended; a query changes no  *)
(* field of the engine, so the calls that follow a query are made on the   *)
(* engine it was made on and are explored from there.                      *)
(***************************************************************************)
QueryOps == {"_get_beat_moves", "_get_not_beat_moves"}

QueryCoords == -1..size

\* game._get_beat_moves(row, col)
CallGetBeatMoves(row, col) ==
    LET res == _get_beat_moves(Self, row, col, bet)
    IN  /\ call' = [op |-> "_get_beat_moves", row |-> row, col |-> col,
                    raised |-> res.raised,
                    result |-> IF res.raised THEN Unset ELSE res.moves]
        /\ bet' = res.bet
        /\ UNCHANGED <<board, size, state, turn, last_changes, black_count,
                       white_count, tie_counter, tie_max, last_op,
                       round_trip, last_move, before, calls, mv, trav, twin, search, made>>

\* game._get_not_beat_moves(row, col)
CallGetNotBeatMoves(row, col) ==
    LET res == _get_not_beat_moves(Self, row, col)
    IN  /\ call' = [op |-> "_get_not_beat_moves", row |-> row, col |-> col,
                    raised |-> res.raised,
                    result |-> IF res.raised THEN Unset ELSE res.moves]
        /\ UNCHANGED <<board, size, state, turn, last_changes, black_count,
                       white_count, tie_counter, tie_max, bet, last_op,
                       round_trip, last_move, before, calls, mv, trav, twin, search, made>>

GetBeatMoves ==
    /\ call.op \notin QueryOps
    /\ \E row \in QueryCoords, col \in QueryCoords : CallGetBeatMoves(row, col)

GetNotBeatMoves ==
    /\ call.op \notin QueryOps
    /\ \E row \in QueryCoords, col \in QueryCoords :
          CallGetNotBeatMoves(row, col)

\* make_move with a move of get_all_moves(), while the game is not over
QueryMove ==
    /\ call.op \notin QueryOps
    /\ MakeMove

QueryNext == GetBeatMoves \/ GetNotBeatMoves \/ QueryMove

QuerySpec == Init /\ [][QueryNext]_vars

(***************************************************************************)
(* The capture search of one piece, _get_beat_steps(row, col), run one     *)
(* statement group at a time.  search.stack holds the activations of       *)
(* _dfs_find_beat_steps, the innermost last; bet is the set object the     *)
(* activations share.  The boards are the two fixtures and the 6x6 boards  *)
(* with one Black piece, man or king, and up to MaxMen White men on the    *)
(* squares that can be jumped over.                                        *)
(***************************************************************************)
SearchSize == 6

\* the dark squares of the SearchSize board, and those not on its edge
DarkSquares ==
    {sq \in (0..(SearchSize - 1)) \X (0..(SearchSize - 1)) :
        sq[1] % 2 # sq[2] % 2}
InnerSquares ==
    {sq \in DarkSquares : /\ sq[1] \in 1..(SearchSize - 2)
                          /\ sq[2] \in 1..(SearchSize - 2)}

\* Game(SearchSize) whose board, black_count and white_count are then
\* assigned, as the fixtures' are
Placement(sq, piece, men) ==
    [NewGame(SearchSize) EXCEPT
       !.board = [x \in Squares |->
                     IF x = sq THEN piece
                     ELSE IF x \in men THEN WHITE ELSE EMPTY],
       !.black_count = 1,
       !.white_count = Cardinality(men)]

SearchStarts ==
    {B_can_bet_5, B_can_bet_4}
        \cup {Placement(p[1], p[2], p[3]) :
                 p \in {q \in DarkSquares \X {BLACK, BLACK_QUEEN}
                                  \X SUBSET InnerSquares :
                           /\ q[1] \notin q[3]
                           /\ Cardinality(q[3]) <= MaxMen}}

\* an activation of _dfs_find_beat_steps(row, col, dirs, bet) at the start
\* of its for loop
Activation(row, col, dirs) ==
    [row |-> row, col |-> col, dirs |-> dirs, i |-> 1, steps |-> <<>>]

\* _get_beat_steps(row, col) has been called on the engine g and has called
\* _dfs_find_beat_steps
SearchInit ==
    \E g \in SearchStarts :
        \E sq \in (0..(g.size - 1)) \X (0..(g.size - 1)) :
            /\ _is_turns_checker(g, get_cell(g.board, sq[1], sq[2]))
            /\ Begin(g, FALSE, TestMove)
            /\ Twin(g, ColorWHITE)
            /\ made = NoMoves
            /\ search = [stack |-> << Activation(sq[1], sq[2],
                                                _get_dirs(g, sq[1], sq[2])) >>,
                         calls |-> 1,
                         result |-> Unset]

\* the innermost activation
Top == search.stack[Len(search.stack)]

\* the for loop of an activation that does not go on
NextDir_same(f) == f

\* the for loop of an activation goes on to its next direction
NextDir(f) == [f EXCEPT !.i = @ + 1]

\* the rest of the engine and of the model, which a search does not touch
SearchKeeps ==
    UNCHANGED <<board, size, state, turn, last_changes, black_count,
                white_count, tie_counter, tie_max, last_op, round_trip,
                last_move, before, call, calls, mv, trav, twin, made>>

\* one pass of the body of the for loop in the innermost activation, up to
\* the recursive call when it makes one
Examine ==
    /\ search.stack # <<>>
    /\ Top.i <= Len(Top.dirs)
    /\ LET f == Top
           n == Len(search.stack)
           rdir == f.dirs[f.i][1]
           cdir == f.dirs[f.i][2]
           r == f.row + rdir
           c == f.col + cdir
           r2 == r + rdir
           c2 == c + cdir
       IN  IF ~_cell_with_opponent(Self, r, c)
           THEN /\ search' = [search EXCEPT !.stack[n] = NextDir(f)]
                /\ bet' = bet
           ELSE IF <<r, c>> \in bet
           THEN /\ search' = [search EXCEPT                  \* break
                                 !.stack[n].i = Len(f.dirs) + 1]
                /\ bet' = bet
           ELSE IF ~_empty_cell(Self, r2, c2)
           THEN /\ search' = [search EXCEPT !.stack[n] = NextDir(f)]
                /\ bet' = (bet \cup {<<r, c>>}) \ {<<r, c>>}
           ELSE /\ search' = [search EXCEPT
                                 !.stack = Append(@,
                                     Activation(r2, c2,
                                                new_dirs(f.dirs, rdir, cdir))),
                                 !.calls = @ + 1]
                /\ bet' = bet \cup {<<r, c>>}
    /\ SearchKeeps

\* the innermost activation returns its steps: to _get_beat_steps, or to the
\* activation that called it, which adds them to its own steps, removes the
\* jumped square from bet and goes on to its next direction
Return ==
    /\ search.stack # <<>>
    /\ Top.i > Len(Top.dirs)
    /\ LET f == Top
           n == Len(search.stack)
       IN  IF n = 1
           THEN /\ search' = [search EXCEPT !.stack = <<>>,
                                            !.result = f.steps]
                /\ bet' = bet
           ELSE LET p == search.stack[n - 1]
                    got == ExtendSteps(<< <<f.row, f.col>> >>, f.steps)
                    back == NextDir([p EXCEPT !.steps = @ \o got])
                IN  /\ search' = [search EXCEPT
                                     !.stack = Append(SubSeq(@, 1, n - 2),
                                                      back)]
                    /\ bet' = bet \ {<<f.row - p.dirs[p.i][1],
                                        f.col - p.dirs[p.i][2]>>}
    /\ SearchKeeps

SearchNext == Examine \/ Return

\* the interpreter runs the search as long as it has a statement to run
SearchSpec == SearchInit /\ [][SearchNext]_vars /\ WF_vars(SearchNext)

(***************************************************************************)
(* Moves and undos from a new Game(N), counted: call records the last call *)
(* and, of the calls so far, how many were make_move and how many were an  *)
(* undo() that found a frame on the change log.                            *)
(***************************************************************************)
CountedInit ==
    \E n \in Sizes :
        /\ Begin(NewGame(n), FALSE, TestMove)
        /\ Twin(NewGame(n), ColorWHITE)
        /\ Idle

\* the calls counted so far
Made == IF call.op = "Game" THEN 0 ELSE call.made
Undone == IF call.op = "Game" THEN 0 ELSE call.undone

\* make_move with a move of get_all_moves(), while the game is not over
CountedMove ==
    /\ state = UNFINISHED
    /\ Len(last_changes) < DepthLimit
    /\ Made < MaxPlies
    /\ LET moves == get_all_moves
       IN  \E k \in 1..Len(moves) :
              LET res == make_move(Self, moves[k], bet)
              IN  /\ Becomes(res.game)
                  /\ bet' = res.bet
                  /\ last_op' = "make_move"
                  /\ round_trip' = FALSE
                  /\ last_move' = moves[k]
                  /\ before' = Snapshot(Self)
    /\ call' = [op |-> "make_move", made |-> Made + 1, undone |-> Undone]
    /\ UNCHANGED <<calls, mv, trav, twin, search, made>>

\* undo()
CountedUndo ==
    /\ Becomes(undo(Self))
    /\ bet' = bet
    /\ last_op' = "undo"
    /\ round_trip' = (last_op = "make_move")
    /\ last_move' = NoMove
    /\ before' = IF last_op = "make_move" THEN before
                 ELSE Snapshot(undo(Self))
    /\ call' = [op |-> "undo", made |-> Made,
                undone |-> IF last_changes = <<>> THEN Undone ELSE Undone + 1]
    /\ UNCHANGED <<calls, mv, trav, twin, search, made>>

CountedNext == CountedMove \/ CountedUndo

CountedSpec == CountedInit /\ [][CountedNext]_vars

(***************************************************************************)
(* Games of an explicit size in which moves are made and cancelled with no *)
(* limit on the depth of the change log: a game that ended in a tie is     *)
(* reopened by undo() and played on.                                       *)
(***************************************************************************)
TieSizes == {3, 4}

TieInit ==
    \E n \in TieSizes :
        /\ Begin(NewGame(n), FALSE, TestMove)
        /\ Twin(NewGame(n), ColorWHITE)
        /\ Idle

\* make_move with a move of get_all_moves(), while the game is not over
TieMove ==
    /\ state = UNFINISHED
    /\ Made < MaxPlies
    /\ \E moves \in {get_all_moves} :
          \E k \in 1..Len(moves) :
             \E res \in {make_move(Self, moves[k], bet)} :
                /\ Becomes(res.game)
                /\ bet' = res.bet
                /\ last_op' = "make_move"
                /\ round_trip' = FALSE
                /\ last_move' = moves[k]
                /\ before' = Snapshot(Self)
    /\ call' = [op |-> "make_move", made |-> Made + 1, undone |-> Undone]
    /\ UNCHANGED <<calls, mv, trav, twin, search, made>>

\* undo() of a move
TieUndo ==
    /\ last_changes # <<>>
    /\ Undone < MaxUndos
    /\ CountedUndo

TieNext == TieMove \/ TieUndo

TieSpec == TieInit /\ [][TieNext]_vars

(***************************************************************************)
(* Move objects and their lists of steps.  The default value of the steps  *)
(* parameter of Move.__init__ is one list, made when the def statement is  *)
(* executed; self.steps = steps makes it the list of every Move that is    *)
(* constructed without steps.  A Move constructed with steps holds the     *)
(* list it was given; here every such list is a new one.  Each object      *)
(* also records the steps that were added to it.                           *)
(***************************************************************************)
\* the start squares and the steps that Moves are made of
MoveStartPool == {<<0, 1>>, <<3, 4>>}
StepPool == {<<5, 2>>, <<1, 2>>}

\* the list that the steps field of the i-th Move refers to
StepsOf(m, i) ==
    IF m.objs[i].given THEN m.objs[i].own ELSE m.default

\* the steps of the i-th Move
Steps(i) == StepsOf(made, i)

\* Move(start)
Construct(start) ==
    /\ Len(made.objs) < MaxMoves
    /\ made' = [made EXCEPT !.objs =
                   Append(@, [start |-> start, given |-> FALSE,
                              own |-> <<>>, added |-> <<>>])]
    /\ call' = [op |-> "Move", start |-> start, given |-> FALSE]
    /\ UNCHANGED <<board, size, state, turn, last_changes, black_count,
                   white_count, tie_counter, tie_max, bet, last_op,
                   round_trip, last_move, before, calls, mv, trav, search>>
    /\ UNCHANGED twin

\* Move(start, steps) with a new list, as in MoveTestCase.setUp
ConstructWith(start, steps) ==
    /\ Len(made.objs) < MaxMoves
    /\ made' = [made EXCEPT !.objs =
                   Append(@, [start |-> start, given |-> TRUE,
                              own |-> steps, added |-> <<>>])]
    /\ call' = [op |-> "Move", start |-> start, given |-> TRUE]
    /\ UNCHANGED <<board, size, state, turn, last_changes, black_count,
                   white_count, tie_counter, tie_max, bet, last_op,
                   round_trip, last_move, before, calls, mv, trav, search>>
    /\ UNCHANGED twin

\* add(step) on the i-th Move: self.steps.append(step)
Add(i, step) ==
    /\ Len(Steps(i)) < MaxSteps
    /\ made' = IF made.objs[i].given
               THEN [made EXCEPT !.objs[i].own = Append(@, step),
                                 !.objs[i].added = Append(@, step)]
               ELSE [made EXCEPT !.default = Append(@, step),
                                 !.objs[i].added = Append(@, step)]
    /\ call' = [op |-> "add", obj |-> i, step |-> step]
    /\ UNCHANGED <<board, size, state, turn, last_changes, black_count,
                   white_count, tie_counter, tie_max, bet, last_op,
                   round_trip, last_move, before, calls, mv, trav, search>>
    /\ UNCHANGED twin

MadeInit ==
    Begin(NewGame(0), FALSE, TestMove) /\ Twin(NewGame(0), ColorWHITE) /\ Idle

MadeNext ==
    \/ \E start \in MoveStartPool : Construct(start)
    \/ \E start \in MoveStartPool : ConstructWith(start, TestMove.steps)
    \/ \E i \in 1..Len(made.objs) : \E step \in StepPool : Add(i, step)

MadeSpec == MadeInit /\ [][MadeNext]_vars

(***************************************************************************)
(* Games played to their end: from Game(N) with an explicit size, a move   *)
(* of get_all_moves() is made as long as the state is Unfinished, as the   *)
(* driver's loop does; no bound is put on the number of moves.             *)
(***************************************************************************)
EndSizes == {3, 4}

\* what the driver holds between two iterations of its loop: the list that
\* get_all_moves() returned, and the set that this call left behind
Listed(g, bet0) ==
    IF g.state = UNFINISHED
    THEN get_all_moves_bet(g, bet0)
    ELSE [moves |-> <<>>, bet |-> bet0]

\* Game(N) and the first call of get_all_moves()
EndInit ==
    \E n \in EndSizes :
        \E first \in {Listed(NewGame(n), {})} :
            /\ board = NewGame(n).board
            /\ size = NewGame(n).size
            /\ state = NewGame(n).state
            /\ turn = NewGame(n).turn
            /\ last_changes = NewGame(n).last_changes
            /\ black_count = NewGame(n).black_count
            /\ white_count = NewGame(n).white_count
            /\ tie_counter = NewGame(n).tie_counter
            /\ tie_max = NewGame(n).tie_max
            /\ bet = first.bet
            /\ last_op = "new"
            /\ round_trip = FALSE
            /\ last_move = NoMove
            /\ before = Snapshot(NewGame(n))
            /\ call = [op |-> "get_all_moves", moves |-> first.moves]
            /\ calls = 0
            /\ mv = TestMove
            /\ trav = <<NoTraversal, NoTraversal>>
            /\ Twin(NewGame(n), ColorWHITE)
            /\ Idle

\* an iteration of the driver's loop: one of the listed moves is made, and
\* the moves of the next iteration are listed if the loop goes on
EndMove ==
    /\ state = UNFINISHED
    /\ \E k \in 1..Len(call.moves) :
          \E res \in {make_move(Self, call.moves[k], bet)} :
             \E next \in {Listed(res.game, res.bet)} :
                /\ Becomes(res.game)
                /\ bet' = next.bet
                /\ last_op' = "make_move"
                /\ round_trip' = FALSE
                /\ last_move' = call.moves[k]
                /\ before' = Snapshot(Self)
                /\ call' = [op |-> "get_all_moves", moves |-> next.moves]
    /\ calls' = calls + 1
    /\ UNCHANGED <<mv, trav, search, made>>
    /\ UNCHANGED twin

\* the loop's condition holds and a listed move can be chosen: what
\* ENABLED <<EndMove>>_vars comes to, make_move being defined for every
\* listed move
EndStep ==
    /\ state = UNFINISHED
    /\ call.moves # <<>>
    /\ calls' = calls + 1

\* the loop goes on as long as its condition holds; calls counts its
\* iterations
EndSpec == EndInit /\ [][EndMove]_vars /\ WF_calls(EndStep)

(***************************************************************************)
(* The engine and the Game of a RandomAI player, as the driver of          *)
(* ai/random_ai.py and tests/ai/test_random_ai.py run them: every move     *)
(* made on one is made on the other.  The two Games are two objects; the   *)
(* bet set, the default value of a parameter, is one object for both.      *)
(***************************************************************************)
\* the sizes of the games played against the AI player: the tests use 8
ShadowSizes == Sizes \cup {SIZE}

ShadowInit ==
    \E n \in ShadowSizes, color \in Color :
        Begin(NewGame(n), FALSE, TestMove) /\ Twin(NewGame(n), color) /\ Idle

\* an iteration of the driver's loop when it is not the AI player's turn:
\* game.make_move(move) with a move of game.get_all_moves()
OpponentTurn ==
    /\ state = UNFINISHED
    /\ turn # ai_color
    /\ pending = <<>>
    /\ Len(last_changes) < DepthLimit
    /\ LET moves == get_all_moves
       IN  \E k \in 1..Len(moves) :
              /\ CallMakeMove(moves[k])
              /\ pending' = << moves[k] >>
    /\ UNCHANGED <<shadow, ai_color>>

\* an iteration of the driver's loop when it is the AI player's turn:
\* move = ai.make_move(move), which makes the pending move, if any, and
\* then a move of its own choice on the AI player's Game, followed by
\* game.make_move(move)
AITurn ==
    /\ state = UNFINISHED
    /\ turn = ai_color
    /\ Len(last_changes) < DepthLimit
    /\ \E given \in {IF pending = <<>> THEN [game |-> shadow, bet |-> bet]
                     ELSE make_move(shadow, pending[1], bet)} :
       \E found \in {get_all_moves_bet(given.game, given.bet)} :
       \E k \in 1..Len(found.moves) :
       \E own \in {make_move(given.game, found.moves[k], found.bet)} :
       \E res \in {make_move(Self, found.moves[k], own.bet)} :
          /\ shadow' = own.game
          /\ Becomes(res.game)
          /\ bet' = res.bet
          /\ last_op' = "make_move"
          /\ round_trip' = FALSE
          /\ last_move' = found.moves[k]
          /\ before' = Snapshot(Self)
    /\ pending' = <<>>
    /\ UNCHANGED <<aside, ai_color>>

ShadowNext == OpponentTurn \/ AITurn

ShadowSpec == ShadowInit /\ [][ShadowNext]_vars

(***************************************************************************)
(* Vocabulary of the properties, stated on the board and not through the   *)
(* engine's own search.                                                    *)
(***************************************************************************)
Range(seq) == {seq[i] : i \in DOMAIN seq}

\* the moves get_all_moves() returns in the current state
Moves == Range(get_all_moves)

\* the squares of the size x size board
BoardSquares == (0..(size - 1)) \X (0..(size - 1))

\* the cell values of the side to move and of its opponent
MoverCells ==
    IF turn = ColorBLACK THEN {BLACK, BLACK_QUEEN} ELSE {WHITE, WHITE_QUEEN}
OpponentCells ==
    IF turn = ColorBLACK THEN {WHITE, WHITE_QUEEN} ELSE {BLACK, BLACK_QUEEN}

Diagonals == {<<-1, -1>>, <<-1, 1>>, <<1, -1>>, <<1, 1>>}

\* the directions of a piece: men forward, kings all four diagonals
TypeDirs(cell) ==
    IF cell = BLACK THEN {<<1, -1>>, <<1, 1>>}
    ELSE IF cell = WHITE THEN {<<-1, -1>>, <<-1, 1>>}
    ELSE IF cell \in {BLACK_QUEEN, WHITE_QUEEN} THEN Diagonals
    ELSE {}

Plus(sq, d) == <<sq[1] + d[1], sq[2] + d[2]>>
Plus2(sq, d) == <<sq[1] + 2 * d[1], sq[2] + 2 * d[2]>>
Minus(d) == <<-d[1], -d[2]>>

\* on the current board, a jump from sq in direction d goes over an opponent
\* piece onto an Empty square of the board
CanJump(sq, d) ==
    /\ Plus(sq, d) \in BoardSquares
    /\ Plus2(sq, d) \in BoardSquares
    /\ board[Plus(sq, d)] \in OpponentCells
    /\ board[Plus2(sq, d)] = EMPTY

\* some piece of the side to move has a jump
CaptureExists ==
    \E sq \in BoardSquares :
        /\ board[sq] \in MoverCells
        /\ \E d \in TypeDirs(board[sq]) : CanJump(sq, d)

\* the one-square diagonal moves of the pieces of the side to move, along a
\* direction of their type, onto an Empty square
SimpleSteps ==
    {Move(p[1], << Plus(p[1], p[2]) >>) :
        p \in {q \in BoardSquares \X Diagonals :
                  /\ board[q[1]] \in MoverCells
                  /\ q[2] \in TypeDirs(board[q[1]])
                  /\ Plus(q[1], q[2]) \in BoardSquares
                  /\ board[Plus(q[1], q[2])] = EMPTY}}

\* a move of one step onto a diagonally adjacent square
IsSimpleStep(m) ==
    /\ Len(m.steps) = 1
    /\ Abs(m.steps[1][1] - m.start[1]) = 1
    /\ Abs(m.steps[1][2] - m.start[2]) = 1

\* the square the k-th hop of a move leaves from
HopFrom(m, k) == IF k = 1 THEN m.start ELSE m.steps[k - 1]

\* the square the k-th hop of a capture move jumps over
Mid(m, k) ==
    <<(HopFrom(m, k)[1] + m.steps[k][1]) \div 2,
      (HopFrom(m, k)[2] + m.steps[k][2]) \div 2>>

\* the direction of the k-th hop of a capture move
HopDir(m, k) ==
    <<m.steps[k][1] - Mid(m, k)[1], m.steps[k][2] - Mid(m, k)[2]>>

\* the row and column displacement of the k-th hop of a move
HopRows(m, k) == m.steps[k][1] - HopFrom(m, k)[1]
HopCols(m, k) == m.steps[k][2] - HopFrom(m, k)[2]

RECURSIVE ChainDirs(_, _)
\* the directions the capture search is left with after the first k hops of
\* move m, on the current board
ChainDirs(m, k) ==
    IF k = 0 THEN _get_dirs(Self, m.start[1], m.start[2])
    ELSE new_dirs(ChainDirs(m, k - 1), HopDir(m, k)[1], HopDir(m, k)[2])

\* what the capture search finds from the square the k-th hop of m lands
\* on, the pieces jumped over by the first k hops being taken
FurtherJumps(m, k) ==
    _dfs_find_beat_steps(Self, m.steps[k][1], m.steps[k][2], ChainDirs(m, k),
                         {Mid(m, i) : i \in 1..k}).steps

\* the squares jumped over by a capture move
Mids(m) == {Mid(m, k) : k \in 1..Len(m.steps)}

\* the square a move ends on
Landing(m) == m.steps[Len(m.steps)]

\* the piece that stands on the last square of the move just made: the
\* piece that stood on its start square, or the king of its colour when the
\* move of the side before.turn ends on that side's farthest row
Arrived ==
    IF before.turn = ColorBLACK /\ Landing(last_move)[1] = size - 1
    THEN BLACK_QUEEN
    ELSE IF before.turn = ColorWHITE /\ Landing(last_move)[1] = 0
    THEN WHITE_QUEEN
    ELSE before.board[last_move.start]

\* the counts of the side that made the last move and of its opponent
MoverCount(s) ==
    IF before.turn = ColorBLACK THEN s.black_count ELSE s.white_count
OpponentCount(s) ==
    IF before.turn = ColorBLACK THEN s.white_count ELSE s.black_count

\* the last move ends on the farthest row of the side that made it
OnFarRow ==
    Landing(last_move)[1] = (IF before.turn = ColorBLACK THEN size - 1 ELSE 0)

\* the last move turned a man into a king
Promoted ==
    /\ before.board[last_move.start] \in {BLACK, WHITE}
    /\ Arrived \in {BLACK_QUEEN, WHITE_QUEEN}

\* the cell writes of the last move, its crowning apart: two for a simple
\* step, three for every hop of a capture
MoveWrites ==
    IF IsSimpleStep(last_move) THEN 2 ELSE 3 * Len(last_move.steps)

\* the last frame of the change log
TopFrame == last_changes[Len(last_changes)]

\* while round_trip holds: the engine as it was when the make_move that the
\* undo cancelled was called
Prior ==
    [Self EXCEPT !.board = before.board, !.state = before.state,
                 !.turn = before.turn, !.black_count = before.black_count,
                 !.white_count = before.white_count,
                 !.tie_counter = before.tie_counter]

(***************************************************************************)
(* C1.  Forced capture: when some piece of the side to move has a jump,    *)
(* get_all_moves() is not empty and holds no simple step; when none has,   *)
(* get_all_moves() is exactly the simple steps, each once.                 *)
(***************************************************************************)
C1_ForcedCapture ==
    LET moves == get_all_moves
        simple == SimpleSteps
    IN  IF CaptureExists
        THEN moves # <<>> /\ \A m \in Range(moves) : ~IsSimpleStep(m)
        ELSE /\ Range(moves) = simple
             /\ Len(moves) = Cardinality(simple)

\* a move has led to a position where a jump exists and a simple step would
\* be possible too
C1_Witness == last_op = "make_move" /\ CaptureExists /\ SimpleSteps # {}

(***************************************************************************)
(* C2.  make_move(m) from a non-terminal position followed by undo()       *)
(* leaves every board cell, black_count and white_count as they were       *)
(* before make_move(m).                                                    *)
(***************************************************************************)
C2_RoundTripBoardCounts ==
    (round_trip /\ before.state = UNFINISHED) =>
        /\ board = before.board
        /\ black_count = before.black_count
        /\ white_count = before.white_count

\* a move made on top of earlier moves, from a non-terminal position in
\* which a piece had been captured, has been cancelled
C2_Witness ==
    /\ round_trip
    /\ before.state = UNFINISHED
    /\ last_changes # <<>>
    /\ black_count + white_count < 2 * _initial_black_count(size)

(***************************************************************************)
(* C3.  make_move(m) from a non-terminal position followed by undo()       *)
(* leaves the side to move as it was before make_move(m).                  *)
(***************************************************************************)
C3_RoundTripTurn ==
    (round_trip /\ before.state = UNFINISHED) => turn = before.turn

(***************************************************************************)
(* C4.  make_move(m) from a non-terminal position followed by undo()       *)
(* leaves tie_counter as it was before make_move(m).                       *)
(***************************************************************************)
C4_RoundTripTieCounter ==
    (round_trip /\ before.state = UNFINISHED) =>
        tie_counter = before.tie_counter

(***************************************************************************)
(* C5.  Right after a make_move from an Unfinished state: the state is Tie *)
(* if tie_counter >= tie_max; otherwise, if the side now to move has no    *)
(* jump and no simple step, the side that just moved has won; otherwise    *)
(* the state is Unfinished.                                                *)
(***************************************************************************)
C5_TerminalState ==
    (last_op = "make_move" /\ before.state = UNFINISHED) =>
        state = IF tie_counter >= tie_max THEN TIE
                ELSE IF ~CaptureExists /\ SimpleSteps = {}
                THEN (IF before.turn = ColorBLACK THEN BLACK_WON
                      ELSE WHITE_WON)
                ELSE UNFINISHED

\* a move has just left the opponent without a move
C5_Witness ==
    /\ last_op = "make_move"
    /\ before.state = UNFINISHED
    /\ tie_counter < tie_max
    /\ state \in {BLACK_WON, WHITE_WON}

(***************************************************************************)
(* C6.  tie_counter is 0 at construction; a make_move of a capture move    *)
(* leaves it 0 and a make_move of any other move leaves it one more than   *)
(* before; once it has reached tie_max the state is Tie; on the 3x3 board  *)
(* the game that ends in Tie has one Black and one White piece left.       *)
(***************************************************************************)
C6_TieCounter ==
    /\ last_op = "new" => tie_counter = 0
    /\ last_op = "make_move" =>
        /\ tie_counter = IF IsSimpleStep(last_move) THEN before.tie_counter + 1
                         ELSE 0
        /\ tie_counter >= tie_max => state = TIE
        /\ (size = 3 /\ state = TIE) => (black_count = 1 /\ white_count = 1)

\* a capture has just reset a counter that was not 0
C6_Witness ==
    /\ last_op = "make_move"
    /\ ~IsSimpleStep(last_move)
    /\ before.tie_counter > 0
    /\ tie_counter = 0

(***************************************************************************)
(* C7.  tie_max is N*N/2 (integer division) for the size N of the engine's *)
(* board, also when the engine is constructed with the default size.       *)
(***************************************************************************)
C7_DefaultTieMax == tie_max = (size * size) \div 2

(***************************************************************************)
(* C8.  When make_move returns, the final destination holds BLACK_QUEEN if *)
(* Black moved and it is in the last row, WHITE_QUEEN if White moved and   *)
(* it is in row 0, and otherwise the value of the piece that moved.        *)
(***************************************************************************)
C8_Promotion ==
    last_op = "make_move" =>
        LET dest == last_move.steps[Len(last_move.steps)]
        IN  board[dest] =
                IF before.turn = ColorBLACK /\ dest[1] = size - 1
                THEN BLACK_QUEEN
                ELSE IF before.turn = ColorWHITE /\ dest[1] = 0
                THEN WHITE_QUEEN
                ELSE before.board[last_move.start]

\* a man has just been promoted at the end of a capture
C8_Witness ==
    /\ last_op = "make_move"
    /\ ~IsSimpleStep(last_move)
    /\ before.board[last_move.start] \in {BLACK, WHITE}
    /\ board[last_move.steps[Len(last_move.steps)]]
           \in {BLACK_QUEEN, WHITE_QUEEN}

(***************************************************************************)
(* C9.  In every capture move get_all_moves() returns, the squares jumped  *)
(* over are pairwise distinct.                                             *)
(***************************************************************************)
C9_NoDoubleCapture ==
    \A m \in Moves :
        ~IsSimpleStep(m) =>
            \A i, j \in 1..Len(m.steps) : i # j => Mid(m, i) # Mid(m, j)

\* a move has led to a position where a chain of several jumps is among
\* the moves
C9_Witness == last_op = "make_move" /\ \E m \in Moves : Len(m.steps) >= 2

(***************************************************************************)
(* C10.  At the node a chain reaches by a jump in direction d, every       *)
(* direction of the piece's type other than -d is examined: if such a      *)
(* direction has an opponent piece not yet taken by the chain and an Empty *)
(* landing square behind it, a returned move continues the chain with that *)
(* jump.                                                                   *)
(***************************************************************************)
C10_OnlyReversePruned ==
    \A m \in Moves :
        ~IsSimpleStep(m) =>
            \A k \in 1..Len(m.steps) :
                \A e \in TypeDirs(board[m.start]) \ {Minus(HopDir(m, k))} :
                    ( /\ CanJump(m.steps[k], e)
                      /\ Plus(m.steps[k], e) \notin {Mid(m, i) : i \in 1..k} )
                    => \E n \in Moves :
                          /\ n.start = m.start
                          /\ Len(n.steps) > k
                          /\ SubSeq(n.steps, 1, k) = SubSeq(m.steps, 1, k)
                          /\ n.steps[k + 1] = Plus2(m.steps[k], e)

(***************************************************************************)
(* C11.  After Game(N) has been constructed, of the squares of the N x N   *)
(* board exactly the dark ones (row % 2 # col % 2) of rows                 *)
(* 0 .. N div 2 - 2 + N % 2 hold BLACK, exactly the dark ones of rows      *)
(* N div 2 + 1 .. N - 1 hold WHITE and every other one is EMPTY;           *)
(* black_count and white_count are the number of such squares of each      *)
(* side, 2 and 2 for N = 4, 1 and 1 for N = 3.                             *)
(***************************************************************************)
C11_InitialLayout ==
    (call.op = "Game" /\ ~call.raised) =>
        LET dark(sq) == sq[1] % 2 # sq[2] % 2
            blacks == {sq \in BoardSquares :
                          dark(sq) /\ sq[1] <= (size \div 2) - 2 + (size % 2)}
            whites == {sq \in BoardSquares :
                          dark(sq) /\ sq[1] >= (size \div 2) + 1}
        IN  /\ \A sq \in BoardSquares :
                  board[sq] = IF sq \in blacks THEN BLACK
                              ELSE IF sq \in whites THEN WHITE ELSE EMPTY
            /\ black_count = Cardinality(blacks)
            /\ white_count = Cardinality(whites)
            /\ black_count = white_count
            /\ size = 4 => black_count = 2
            /\ size = 3 => black_count = 1

\* a Game of odd size, with rows of three and of four men, has been
\* constructed
C11_Witness ==
    /\ call.op = "Game"
    /\ ~call.raised
    /\ size = 7
    /\ black_count = 10
    /\ \A col \in 0..(size - 1) : board[<<3, col>>] = EMPTY

(***************************************************************************)
(* C12.  Constructing a Game of any size N > 0 succeeds: the constructor   *)
(* raises no error.                                                        *)
(***************************************************************************)
C12_AnySizeConstructs == call.op = "Game" => ~call.raised

(***************************************************************************)
(* C13.  get_cell and set_cell raise IndexError exactly when row or col is *)
(* outside 0 .. size - 1, negative coordinates included; a set_cell that   *)
(* raises leaves every cell as it was; a set_cell that does not raise      *)
(* leaves the written value to be read by get_cell on the same square and  *)
(* every other cell as it was.                                             *)
(***************************************************************************)
C13_BoundsChecked ==
    call.op \in {"get_cell", "set_cell"} =>
        LET inside == /\ 0 <= call.row /\ call.row < size
                      /\ 0 <= call.col /\ call.col < size
            here == <<call.row, call.col>>
        IN  /\ call.raised <=> ~inside
            /\ (call.op = "get_cell" /\ inside) => call.result = board[here]
            /\ (call.op = "set_cell" /\ ~inside) => board = call.prev
            /\ (call.op = "set_cell" /\ inside) =>
                  /\ get_cell(board, call.row, call.col) = call.cell
                  /\ \A sq \in Squares \ {here} : board[sq] = call.prev[sq]

\* after a set_cell that changed a cell, a set_cell with a negative row has
\* raised
C13_Witness ==
    /\ call.op = "set_cell"
    /\ call.raised
    /\ call.row < 0
    /\ calls = 2
    /\ board # fill_initial(size)

(***************************************************************************)
(* C14.  get_all_moves() assigns no field of the engine, and the bet set   *)
(* of the capture search carries nothing from one call to the next: it is  *)
(* empty between calls, a call leaves it as it found it, and a second      *)
(* call on the same position returns the same list of moves as the first.  *)
(***************************************************************************)
C14_EnumerationRepeatable ==
    LET first == get_all_moves_bet(Self, bet)
        second == get_all_moves_bet(Self, first.bet)
    IN  /\ bet = {}
        /\ first.bet = bet
        /\ second.moves = first.moves
        /\ second.bet = bet

\* a move has led to a position where two capture moves of one piece, which
\* the search finds as sibling branches, are among the moves
C14_Witness ==
    /\ last_op = "make_move"
    /\ \E m, n \in Moves :
          /\ m # n
          /\ m.start = n.start
          /\ ~IsSimpleStep(m)
          /\ ~IsSimpleStep(n)

(***************************************************************************)
(* C15.  get_all_moves() returns a list, which may be empty, and raises    *)
(* nothing: the WrongMoveError of a square that is Empty or holds a piece  *)
(* of the opponent is caught, and such a square contributes no move.       *)
(* Every returned move starts on a square of the board that holds a piece  *)
(* of the side to move, and has at least one step.                         *)
(***************************************************************************)
C15_EnumerationTotal ==
    LET moves == get_all_moves
    IN  /\ DOMAIN moves = 1..Len(moves)
        /\ \A m \in Range(moves) :
              /\ m.start \in BoardSquares
              /\ board[m.start] \in MoverCells
              /\ Len(m.steps) >= 1

\* a move has led to a position where moves are returned, and where a
\* piece of the opponent stands next to an Empty square in a direction of
\* its type
C15_Witness ==
    /\ last_op = "make_move"
    /\ Moves # {}
    /\ \E sq \in BoardSquares :
          /\ board[sq] \in OpponentCells
          /\ \E d \in TypeDirs(board[sq]) :
                /\ Plus(sq, d) \in BoardSquares
                /\ board[Plus(sq, d)] = EMPTY

(***************************************************************************)
(* C16.  Each of two traversals of one Move that are in progress at the    *)
(* same time is given the Move's steps in order, each once: what it has    *)
(* been given so far is the beginning of the list of steps, and when it    *)
(* ends it has been given all of them.                                     *)
(***************************************************************************)
C16_IndependentTraversals ==
    \A t \in {1, 2} :
        /\ Len(trav[t].out) <= Len(mv.steps)
        /\ trav[t].out = SubSeq(mv.steps, 1, Len(trav[t].out))
        /\ trav[t].stopped => trav[t].out = mv.steps

(***************************************************************************)
(* C17.  An undo() called when the change log is empty leaves the board,   *)
(* the side to move, the state, black_count, white_count, tie_counter and  *)
(* the change log as they are; on a new game the side to move is Black and *)
(* the state Unfinished.                                                   *)
(***************************************************************************)
C17_UndoOnEmptyLog ==
    [][(last_op' = "undo" /\ last_changes = <<>>) =>
          /\ UNCHANGED <<board, turn, state, black_count, white_count,
                         tie_counter, last_changes>>
          /\ last_op = "new" => (turn' = ColorBLACK /\ state' = UNFINISHED)]_vars

\* an undo that did not follow a make_move has left the change log empty
\* with White to move, as the second undo of make_move, undo, undo does
C17_Witness ==
    /\ last_op = "undo"
    /\ ~round_trip
    /\ last_changes = <<>>
    /\ turn = ColorWHITE

(***************************************************************************)
(* C18.  After every undo() the state is Unfinished, also when the move    *)
(* it cancelled had ended the game.                                        *)
(***************************************************************************)
C18_UndoUnfinished == last_op = "undo" => state = UNFINISHED

\* a make_move from an Unfinished position every move of which wins the
\* game has been cancelled
C18_Witness ==
    /\ round_trip
    /\ before.state = UNFINISHED
    /\ LET moves == get_all_moves_bet(Prior, bet).moves
       IN  /\ moves # <<>>
           /\ \A m \in Range(moves) :
                 make_move(Prior, m, bet).game.state \in {BLACK_WON, WHITE_WON}

(***************************************************************************)
(* C19.  A make_move called when the state is Tie, BlackWon or WhiteWon is *)
(* not carried out: the board, the counts, the side to move and            *)
(* tie_counter are as they were before the call.                           *)
(***************************************************************************)
C19_NoMoveWhenFinished ==
    (last_op = "make_move" /\ before.state # UNFINISHED) =>
        /\ board = before.board
        /\ black_count = before.black_count
        /\ white_count = before.white_count
        /\ turn = before.turn
        /\ tie_counter = before.tie_counter

(***************************************************************************)
(* C20.  A new game has Black to move, and after k make_move calls and no  *)
(* undo the side to move is Black if and only if k is even.  (Without      *)
(* undo, k is the number of frames of the change log.)                     *)
(***************************************************************************)
C20_TurnAlternation ==
    /\ last_op = "new" => turn = ColorBLACK
    /\ turn = ColorBLACK <=> Len(last_changes) % 2 = 0

\* three moves have been made and it is White's turn
C20_Witness ==
    /\ last_op = "make_move"
    /\ Len(last_changes) = 3
    /\ turn = ColorWHITE

(***************************************************************************)
(* C21.  The engine and the AI player's Game, constructed with the same    *)
(* size and given the same moves, have equal board cells, turn, state,     *)
(* black_count, white_count and tie_counter; a move made on the engine     *)
(* alone changes no field of the AI player's Game, which is then exactly   *)
(* that move behind.                                                       *)
(***************************************************************************)
C21_ShadowAgrees ==
    /\ pending = <<>> => Snapshot(shadow) = Snapshot(Self)
    /\ pending # <<>> =>
          /\ Snapshot(shadow) = before
          /\ Snapshot(make_move(shadow, pending[1], bet).game) = Snapshot(Self)

\* the engine and the AI player's Game have both made the same three moves,
\* one of them a capture
C21_Witness ==
    /\ pending = <<>>
    /\ Len(last_changes) = 3
    /\ Len(shadow.last_changes) = 3
    /\ black_count + white_count < 2 * _initial_black_count(size)

(***************************************************************************)
(* C22.  On a new Game(4), get_all_moves() is the three simple steps       *)
(* (0,1)->(1,0), (0,1)->(1,2), (0,3)->(1,2), in this order; after the      *)
(* first of them is made, (0,1) is Empty, (1,0) is BLACK, black_count and  *)
(* white_count are both still 2, White is to move and the state is         *)
(* Unfinished.                                                             *)
(***************************************************************************)
C22_Opening4 ==
    LET first == Move(<<0, 1>>, << <<1, 0>> >>)
    IN  /\ (size = 4 /\ Len(last_changes) = 0) =>
              get_all_moves = << first,
                                 Move(<<0, 1>>, << <<1, 2>> >>),
                                 Move(<<0, 3>>, << <<1, 2>> >>) >>
        /\ (size = 4 /\ Len(last_changes) = 1 /\ last_move = first) =>
              /\ get_cell(board, 0, 1) = EMPTY
              /\ get_cell(board, 1, 0) = BLACK
              /\ black_count = 2
              /\ white_count = 2
              /\ turn = ColorWHITE
              /\ state = UNFINISHED

\* the first opening move of the 4x4 game has been made
C22_Witness ==
    /\ size = 4
    /\ Len(last_changes) = 1
    /\ last_op = "make_move"
    /\ last_move = Move(<<0, 1>>, << <<1, 0>> >>)
    /\ before.board = NewGame(4).board

(***************************************************************************)
(* C23.  From the position of fixture B_can_bet_5 (Black to move, Black    *)
(* king on (4,1), White men on (1,2),(1,4),(1,6),(3,2),(3,4),(3,6)), the   *)
(* move at index 1 of get_all_moves() leaves exactly one Black king, on    *)
(* (0,1), and no White piece, black_count = 1, white_count = 0,            *)
(* tie_counter = 0 and state BlackWon.                                     *)
(***************************************************************************)
C23_ChainClearsBoard ==
    ( /\ last_op = "make_move"
      /\ Len(last_changes) = 1
      /\ before = Snapshot(B_can_bet_5)
      /\ last_move = get_all_moves_bet(B_can_bet_5, {}).moves[2] )
    => /\ board = [sq \in Squares |->
                      IF sq = <<0, 1>> THEN BLACK_QUEEN ELSE EMPTY]
       /\ black_count = 1
       /\ white_count = 0
       /\ tie_counter = 0
       /\ state = BLACK_WON

(***************************************************************************)
(* C24.  From the position of fixture B_can_bet_4 (Black to move, Black    *)
(* king on (4,1), White men on (1,4),(3,2),(3,4),(5,2),(5,4)), the move at *)
(* index 1 of get_all_moves() is a chain that lands back on its start      *)
(* square: it captures the men on (3,2),(3,4),(5,4),(5,2) and ends on      *)
(* (4,1), leaving only the White man on (1,4), black_count = 1,            *)
(* white_count = 1, tie_counter = 0 and state Unfinished.                  *)
(***************************************************************************)
C24_CircularChain ==
    ( /\ last_op = "make_move"
      /\ Len(last_changes) = 1
      /\ before = Snapshot(B_can_bet_4)
      /\ last_move = get_all_moves_bet(B_can_bet_4, {}).moves[2] )
    => /\ last_move.steps[Len(last_move.steps)] = FixtureQueen
       /\ {Mid(last_move, k) : k \in 1..Len(last_move.steps)}
             = {<<3, 2>>, <<3, 4>>, <<5, 4>>, <<5, 2>>}
       /\ board = [sq \in Squares |->
                      IF sq = FixtureQueen THEN BLACK_QUEEN
                      ELSE IF sq = <<1, 4>> THEN WHITE ELSE EMPTY]
       /\ black_count = 1
       /\ white_count = 1
       /\ tie_counter = 0
       /\ state = UNFINISHED

(***************************************************************************)
(* C25.  In every move returned by get_all_moves(), every hop is diagonal, *)
(* of one square when the move is a simple step (no piece of the mover has *)
(* a jump) and of two squares when it is a jump; every hop of a Black man  *)
(* increases the row and every hop of a White man decreases it, so only a  *)
(* king has a move with hops in both row directions.                       *)
(***************************************************************************)
C25_PieceDirections ==
    LET moves == get_all_moves
        len == IF CaptureExists THEN 2 ELSE 1
    IN  \A i \in 1..Len(moves) :
           LET m == moves[i]
               hops == 1..Len(m.steps)
           IN  /\ \A k \in hops :
                     /\ Abs(HopRows(m, k)) = len
                     /\ Abs(HopCols(m, k)) = len
                     /\ board[m.start] = BLACK => HopRows(m, k) > 0
                     /\ board[m.start] = WHITE => HopRows(m, k) < 0
               /\ (\E j, k \in hops : HopRows(m, j) < 0 /\ HopRows(m, k) > 0)
                     => board[m.start] \in {BLACK_QUEEN, WHITE_QUEEN}

\* after a move has been made, get_all_moves() holds a king's chain with hops
\* in both row directions
C25_Witness ==
    /\ last_op = "make_move"
    /\ \E m \in Moves :
          /\ board[m.start] \in {BLACK_QUEEN, WHITE_QUEEN}
          /\ \E j, k \in 1..Len(m.steps) :
                HopRows(m, j) < 0 /\ HopRows(m, k) > 0

C27_MaximalChains ==
    LET moves == get_all_moves
        all == Range(moves)
    IN  /\ \A m \in all :
               ~IsSimpleStep(m) =>
                   /\ FurtherJumps(m, Len(m.steps)) = <<>>
                   /\ \A k \in 1..(Len(m.steps) - 1) : FurtherJumps(m, k) # <<>>
        /\ \A m, n \in all :
               ~( /\ m.start = n.start
                  /\ Len(m.steps) < Len(n.steps)
                  /\ SubSeq(n.steps, 1, Len(m.steps)) = m.steps )
        /\ \A sq \in BoardSquares :
               board[sq] \in MoverCells =>
                   \A d \in TypeDirs(board[sq]) :
                       LET one == Move(sq, << Plus2(sq, d) >>)
                       IN  (CanJump(sq, d) /\ FurtherJumps(one, 1) = <<>>)
                               => one \in all

\* after a move has been made, get_all_moves() holds a chain of length 1 and
\* a chain of two hops or more
C27_Witness ==
    /\ last_op = "make_move"
    /\ \E m, n \in Moves :
          /\ ~IsSimpleStep(m)
          /\ Len(m.steps) = 1
          /\ Len(n.steps) >= 2

(***************************************************************************)
(* C28.  make_move of a capture move of k hops returned by get_all_moves() *)
(* empties the start square and the k squares jumped over and puts the     *)
(* mover's piece on the last landing square; the opponent's count falls by *)
(* exactly k, the mover's count does not change, and no cell other than    *)
(* the start, the squares jumped over and the landing squares changes.     *)
(***************************************************************************)
C28_CaptureApplied ==
    (last_op = "make_move" /\ ~IsSimpleStep(last_move)) =>
        LET m == last_move
            k == Len(m.steps)
        IN  /\ board[m.start] = EMPTY
            /\ \A sq \in Mids(m) : board[sq] = EMPTY
            /\ board[Landing(m)] = Arrived
            /\ OpponentCount(Self) = OpponentCount(before) - k
            /\ MoverCount(Self) = MoverCount(before)
            /\ \A sq \in BoardSquares \ (Mids(m) \cup {m.start, Landing(m)}) :
                   board[sq] = before.board[sq]

\* a capture of two hops or more has been made
C28_Witness ==
    /\ last_op = "make_move"
    /\ Len(last_move.steps) >= 2
    /\ Cardinality(Mids(last_move)) = Len(last_move.steps)

(***************************************************************************)
(* C29.  make_move applies a returned move with exactly one destination,   *)
(* diagonally adjacent to its start, as a simple step: the occupant goes   *)
(* to the destination, the start becomes Empty, no other cell changes and  *)
(* both counts are unchanged.  It applies every other returned move, a     *)
(* single jump in any of the four diagonal directions included, as a       *)
(* capture: every square jumped over is emptied and the opponent's count   *)
(* falls by the number of hops.                                            *)
(***************************************************************************)
C29_StepOrCapture ==
    last_op = "make_move" =>
        LET m == last_move
        IN  IF IsSimpleStep(m)
            THEN /\ IsOneStep(m)
                 /\ board[m.start] = EMPTY
                 /\ board[m.steps[1]] = Arrived
                 /\ \A sq \in BoardSquares \ {m.start, m.steps[1]} :
                        board[sq] = before.board[sq]
                 /\ black_count = before.black_count
                 /\ white_count = before.white_count
            ELSE /\ ~IsOneStep(m)
                 /\ \A sq \in Mids(m) :
                        before.board[sq] # EMPTY /\ board[sq] = EMPTY
                 /\ OpponentCount(Self) = OpponentCount(before) - Len(m.steps)

\* a single jump towards smaller rows and smaller columns has been made
C29_Witness ==
    /\ last_op = "make_move"
    /\ Len(last_move.steps) = 1
    /\ HopRows(last_move, 1) = -2
    /\ HopCols(last_move, 1) = -2

(***************************************************************************)
(* C30.  undo() of a non-empty change log decreases tie_counter by one for *)
(* each cell entry of the frame it restores, never below 0; the frame of   *)
(* the move just made has 2 entries for a simple step and 3 for every hop  *)
(* of a capture, plus 1 when the move ends on the mover's farthest row,    *)
(* whether the piece that arrives there is a man, which is crowned, or     *)
(* already a king.                                                         *)
(***************************************************************************)
C30_UndoTieCounter ==
    [][ (last_op' = "undo" /\ last_changes # <<>>) =>
            /\ tie_counter' = Max(0, tie_counter - Len(TopFrame))
            /\ last_op = "make_move" =>
                  Len(TopFrame) = MoveWrites + (IF OnFarRow THEN 1 ELSE 0)
      ]_vars

(***************************************************************************)
(* C30 as stated: undo() of a non-empty change log decreases tie_counter   *)
(* by one for each cell entry of the frame, never below 0, and the frame   *)
(* has 2 entries for a simple step, 3 for a promoting step, and 3 per hop  *)
(* for a capture plus 1 if it promotes.                                    *)
(***************************************************************************)
C30_AsStated ==
    [][ (last_op' = "undo" /\ last_changes # <<>>) =>
            /\ tie_counter' = Max(0, tie_counter - Len(TopFrame))
            /\ last_op = "make_move" =>
                  Len(TopFrame) = MoveWrites + (IF Promoted THEN 1 ELSE 0)
      ]_vars

\* a simple step of a king onto its side's farthest row has been undone:
\* tie_counter, 3 or more before the step and one more after it, is 2 less
\* than before the step, and the side that moved had no man on the row next
\* to its farthest row
C30_Witness ==
    /\ round_trip
    /\ before.tie_counter >= 3
    /\ tie_counter = before.tie_counter - 2
    /\ \A sq \in BoardSquares :
          sq[1] = (IF before.turn = ColorBLACK THEN size - 2 ELSE 1)
             => before.board[sq] #
                   (IF before.turn = ColorBLACK THEN BLACK ELSE WHITE)

(***************************************************************************)
(* C31.  _get_beat_moves(row, col) and _get_not_beat_moves(row, col) raise *)
(* WrongMoveError exactly when row or col is outside 0..size-1 or the      *)
(* square does not hold a piece of the side to move; a call that raises    *)
(* changes no field of the engine, and a call on a square with a piece of  *)
(* the side to move returns a list (of moves that start on that square).   *)
(***************************************************************************)
C31_PerSquareQuery ==
    [][ (call'.op \in QueryOps /\ call' # call) =>
            LET sq == <<call'.row, call'.col>>
                ok == sq \in BoardSquares /\ board[sq] \in MoverCells
            IN  /\ call'.raised = ~ok
                /\ ~ok => /\ Self' = Self
                          /\ bet' = bet
                /\ ok => /\ call'.result \in Seq(Range(call'.result))
                         /\ \A m \in Range(call'.result) : m.start = sq
      ]_vars

\* after a move has been made, a query on a square of the board that holds a
\* piece of the opponent has raised WrongMoveError
C31_Witness ==
    /\ call.op \in QueryOps
    /\ call.raised
    /\ last_op = "make_move"
    /\ <<call.row, call.col>> \in BoardSquares
    /\ board[<<call.row, call.col>>] \in OpponentCells

(***************************************************************************)
(* C32.  The capture search started from any square terminates: the        *)
(* outermost activation of _dfs_find_beat_steps returns, after finitely    *)
(* many recursive calls.                                                   *)
(***************************************************************************)
C32_SearchTerminates == <>(search.result # Unset)

\* a search that made recursive calls three deep has returned, with the
\* bet set empty again and the list that _dfs_find_beat_steps is defined to
\* return
C32_Witness ==
    /\ search.result # Unset
    /\ search.calls >= 4
    /\ \E k \in 1..Len(search.result) : Len(search.result[k]) >= 3
    /\ bet = {}
    /\ \E sq \in BoardSquares :
          /\ board[sq] \in MoverCells
          /\ search.result
                = _get_beat_steps(Self, sq[1], sq[2], {}).steps

(***************************************************************************)
(* C33.  In every state reached from a new game by make_move and undo,     *)
(* black_count is the number of cells holding BLACK or BLACK_QUEEN and     *)
(* white_count the number of cells holding WHITE or WHITE_QUEEN.           *)
(***************************************************************************)
C33_CountsMatchBoard ==
    /\ black_count
          = Cardinality({sq \in BoardSquares :
                            board[sq] \in {BLACK, BLACK_QUEEN}})
    /\ white_count
          = Cardinality({sq \in BoardSquares :
                            board[sq] \in {WHITE, WHITE_QUEEN}})

\* in a game begun by Game(N), a move has been made after a capture
C33_Witness ==
    /\ size < SIZE
    /\ Len(last_changes) >= 2
    /\ last_op = "make_move"
    /\ black_count + white_count < 2 * _initial_black_count(size)
    /\ before.black_count + before.white_count
          < 2 * _initial_black_count(size)

(***************************************************************************)
(* C34.  The change log has one frame for every move made and not yet      *)
(* undone: make_move adds a frame, undo removes one when there is one; and *)
(* whenever the log is empty again, after as many undos as moves, every    *)
(* cell of the board, black_count and white_count have the values they had *)
(* when the game began.                                                    *)
(***************************************************************************)
C34_MultiLevelUndo ==
    /\ Len(last_changes) = Made - Undone
    /\ Made = Undone =>
          /\ last_changes = <<>>
          /\ board = NewGame(size).board
          /\ black_count = NewGame(size).black_count
          /\ white_count = NewGame(size).white_count

\* three moves have been made and the last of three undos in a row has
\* emptied the change log
C34_Witness ==
    /\ last_op = "undo"
    /\ ~round_trip
    /\ Made = 3
    /\ Undone = 3
    /\ board = NewGame(size).board

(***************************************************************************)
(* C35.  In the initial state of Game(N), N > 0, and in every state        *)
(* reached from it by make_move, state = Unfinished implies that           *)
(* get_all_moves() is not empty.  Stated here for the engine as its        *)
(* constructor leaves it.                                                  *)
(***************************************************************************)
C35_UnfinishedHasMove ==
    (Constructed /\ call.op = "Game" /\ calls = 0 /\ state = UNFINISHED)
        => get_all_moves # <<>>

(***************************************************************************)
(* C36.  Every game ends: a game created with an explicit size N >= 3, in  *)
(* which a move returned by get_all_moves() is made as long as the state   *)
(* is Unfinished, reaches a state other than Unfinished after finitely     *)
(* many moves.                                                             *)
(***************************************************************************)
C36_EveryGameEnds == <>(state # UNFINISHED)

\* a game has ended in a tie after more than tie_max moves: a capture along
\* the way had reset tie_counter
C36_Witness ==
    /\ state = TIE
    /\ last_op = "make_move"
    /\ Len(last_changes) > tie_max
    /\ black_count + white_count < 2 * _initial_black_count(size)

(***************************************************************************)
(* C37.  Repetition counter bounds: in a game created with an explicit     *)
(* size N (so that tie_max is N * N \div 2), in every state reached by     *)
(* make_move, called only while the state is Unfinished with a move of     *)
(* get_all_moves(), and by undo, 0 <= tie_counter <= tie_max.              *)
(***************************************************************************)
C37_TieCounterBounds ==
    tie_max = (size * size) \div 2 => tie_counter \in 0..tie_max

\* a game that ended in a tie was reopened by undo() and played on to a
\* second tie: the change log is longer than tie_max, the counter is not
C37_Witness ==
    /\ Undone >= 1
    /\ last_op = "make_move"
    /\ state = TIE
    /\ tie_counter = tie_max
    /\ Len(last_changes) > tie_max
    /\ black_count + white_count = 2 * _initial_black_count(size)

(***************************************************************************)
(* C38.  No unpromoted man on its promotion row: in every state reached    *)
(* from a new game by make_move, with a move of get_all_moves(), and by    *)
(* undo, no cell of the last row holds BLACK and no cell of row 0 holds    *)
(* WHITE.                                                                  *)
(***************************************************************************)
C38_NoManOnFarRow ==
    \A col \in 0..(size - 1) :
        /\ get_cell(board, size - 1, col) # BLACK
        /\ get_cell(board, 0, col) # WHITE

\* a White man of a new game has just moved to row 0, where a White king
\* now stands, after a Black man was crowned on the last row
C38_Witness ==
    /\ size < SIZE
    /\ last_op = "make_move"
    /\ before.turn = ColorWHITE
    /\ Promoted
    /\ get_cell(board, 0, Landing(last_move)[2]) = WHITE_QUEEN
    /\ \E col \in 0..(size - 1) : get_cell(board, size - 1, col) = BLACK_QUEEN

(***************************************************************************)
(* C39.  Pieces stay on dark squares: in every state reached from a new    *)
(* game by make_move, with a move of get_all_moves(), and by undo, every   *)
(* cell (row, col) that is not Empty has row % 2 # col % 2.                *)
(***************************************************************************)
C39_DarkSquaresOnly ==
    \A sq \in Squares :
        get_cell(board, sq[1], sq[2]) # EMPTY => sq[1] % 2 # sq[2] % 2

\* in a game of a size other than the default a capture was made, then a
\* move was made and cancelled: the board holds what the capture left
C39_Witness ==
    /\ size < SIZE
    /\ last_op = "undo"
    /\ round_trip
    /\ last_changes # <<>>
    /\ black_count + white_count < 2 * _initial_black_count(size)

(***************************************************************************)
(* C40.  Moves do not share their destination list: of the Move objects    *)
(* constructed each without a steps argument, every one holds exactly the  *)
(* steps that were added to it, so that add(step) on one does not change   *)
(* the steps of another and a newly constructed Move(start) has none.      *)
(***************************************************************************)
C40_OwnSteps ==
    \A i \in 1..Len(made.objs) :
        ~made.objs[i].given => Steps(i) = made.objs[i].added

====
